---- MODULE Spec2Model ----
(***************************************************************************)
(* State-machine model of arjs-plugin-artoolkit.                           *)
(*                                                                         *)
(*   control side: ArtoolkitPlugin (src/unnamed/part_006, lines 1-242):    *)
(*     init / enable / disable, _startWorker / _stopWorker,                *)
(*     _onEngineUpdate, _onWorkerMessage, _sweepMarkers                    *)
(*   worker side:  the ARToolKit worker (src/unnamed/part_001):            *)
(*     initArtoolkit, loadPatternOnce, the onMessage handler               *)
(*   the detection batches the plugin receives are the ones                *)
(*     src/src/worker/worker.js builds (readDetectionsFromArController)    *)
(*                                                                         *)
(* Every await of the JavaScript source is a point where an action ends:   *)
(* an action is one run-to-completion step of the event loop.              *)
(***************************************************************************)
EXTENDS Integers, Sequences, FiniteSets, TLC

(***************************************************************************)
(* Bounds of the model.                                                    *)
(***************************************************************************)
MaxTime == 3        \* Date.now() of the control side runs over 0..MaxTime
MaxBatch == 2       \* detections in one detectionResult batch
MaxPending == 2     \* enable() calls suspended at an await at the same time
MaxLive == 2        \* workers / interval timers alive at the same time
MaxUnprocessed == 2 \* frames posted and not yet processed that are told apart
MaxRequests == 3    \* loadMarker requests a worker receives
MaxFailures == 7    \* init attempts that fail in a row
MaxCalls == 2       \* loadMarker calls made on the plugin
MaxRpcTime == 3     \* the request timers' clock runs over 0..MaxRpcTime steps
MaxFrameWaiters == 2 \* processFrame handlers suspended at the same time
MaxWorkerTime == 3  \* Date.now() of the worker runs over 0..MaxWorkerTime seconds

(***************************************************************************)
(* Input domains.                                                          *)
(***************************************************************************)
MarkerIds == {"m1", "m2"}
Envs == {"browser", "node"}          \* typeof Worker !== 'undefined' or not
LostThresholdOptions == {1}          \* options.lostThreshold
FrameDurationOptions == {2}          \* options.frameDurationMs
PatternUrls == {"p1", "p2"}          \* payload.patternUrl of a loadMarker request
RequestIds == 1..MaxRequests         \* payload.requestId

DefaultMinConfidence == 60           \* options.minConfidence: 0.6
MinConfidenceOptions == {DefaultMinConfidence, 90}
PATTERN_MARKER == 0                  \* ARToolkit.PATTERN_MARKER
TrackedPatternIdOptions == {{}, {7}}
CallIds == 0..(MaxCalls - 1)         \* requestIds of the plugin's loadMarker calls
MarkerSizes == {1, 2}                \* size of a loadMarker call

\* An optional value (null / undefined or a value) is a sequence of length <= 1.
None == <<>>
Some(v) == <<v>>

Fill(n, v) == [i \in 1..n |-> v]

\* Matrices the detection engine may hand to the worker: none, a 4x4 matrix
\* (with entries that float32 cannot hold), a 3x4 matrix.
RawPoses == {None, Some(Fill(16, 16777217)), Some(Fill(12, 1))}

VARIABLES
    \* ---- control side: ArtoolkitPlugin --------------------------------
    env,              \* "browser" | "node"
    workerEnabled,    \* this.workerEnabled
    lostThreshold,    \* this.lostThreshold
    frameDurationMs,  \* this.frameDurationMs
    minConfidence,    \* options.minConfidence, in hundredths
    trackedPatternIds, \* the pattern ids to forward raw events for (empty: all)
    core,             \* this.core is set
    enabled,          \* this.enabled
    stoppedWorker,    \* history: the last disable() that ran found a worker and
                      \*   stopped it, and enable() has not been called since
    heldAtDisable,    \* history: the ids that had a record at the last disable()
                      \*   that ran, but for those whose record a sweep removed
    subscriptions,    \* registrations of _onEngineUpdate for engine:update
    worker,           \* this._worker: 0 is null, else a worker id
    liveWorkers,      \* workers created and not terminated
    listening,        \* workers whose message handler is _onWorkerMessage
    sweepInterval,    \* this._sweepInterval: 0 is null/undefined, else a timer id
    timers,           \* interval timers set and not cleared
    pending,          \* suspended enable() calls: await point |-> how many
    markers,          \* this._markers, in insertion order
    clock,            \* Date.now()
    received,         \* the worker message the last step handled, if any
    emitted,          \* events emitted on the event bus by the last step
    reported,         \* history: the ids whose latest marker event is found or updated
    posted,           \* postMessage calls on a worker made by the last step
    unprocessed,      \* processFrame messages posted that no worker has finished
                      \*   with yet (MaxUnprocessed stands for that many or more)
    terminated,       \* workers on which the last step called terminate()
    thrown,           \* the last call threw to its caller
    nextRequestId,    \* the requestId the next loadMarker call gets
    pendingRequests,  \* requestId |-> None, or the pending request (createdAt)
    settled,          \* history: requestId |-> None, or how the promise settled
    rpcClock          \* Date.now() for the request timers, in steps of 5 s

pluginVars == <<env, workerEnabled, lostThreshold, frameDurationMs, minConfidence,
                trackedPatternIds, core, enabled, stoppedWorker, heldAtDisable,
                subscriptions, worker, liveWorkers, listening, sweepInterval,
                timers, pending, markers, clock, received, emitted, reported,
                posted, unprocessed, terminated, thrown, nextRequestId,
                pendingRequests, settled, rpcClock>>

rpcVars == <<nextRequestId, pendingRequests, settled, rpcClock>>

VARIABLES
    \* ---- worker side: the ARToolKit worker ----------------------------
    arControllerInitialized,  \* arControllerInitialized
    getMarkerForwarderAttached, \* getMarkerForwarderAttached
    getMarkerListeners,       \* history: addEventListener('getMarker') calls made
    initInProgress,           \* initInProgress is a promise (not null)
    initAttempts,             \* history: init attempts started and not settled
    initFailCount,            \* initFailCount
    initFailedUntil,          \* initFailedUntil, in ms
    delays,                   \* history: the retry delays set by the failed
                              \*   attempts since the last success, in ms
    loadedMarkers,            \* loadedMarkers: patternUrl |-> None or Some(markerId)
    loadingMarkers,           \* loadingMarkers: patternUrl |-> 0 or the engine call
                              \*   whose promise the Map holds
    engineLoads,              \* arController.loadMarker calls not yet settled
    calls,                    \* arController.loadMarker calls made so far
    initWaiters,              \* loadMarker handlers suspended in initArtoolkit,
                              \*   in the order they will resume
    req,                      \* the loadMarker requests: request id |-> its handler
    group,                    \* history, per patternUrl, of the requests now in
                              \*   flight together: engine load calls made for
                              \*   them, and whether the first found the url loaded;
                              \*   and the engine load calls ever made for the
                              \*   url, and how many of them failed
    wclock,                   \* Date.now() of the worker, in seconds
    sent,                     \* messages the worker sent in the last step
    offscreenCanvas,          \* offscreenCanvas is set
    offscreenCtx,             \* offscreenCtx is set
    frameWaiters,             \* processFrame handlers suspended in initArtoolkit
    handled                   \* the processFrame handlers (of frames with a bitmap)
                              \*   that ended in the last step: for each, the
                              \*   calls it made on the canvas, the bitmap and
                              \*   the engine, in order

frameVars == <<offscreenCanvas, offscreenCtx, frameWaiters>>

listenerVars == <<getMarkerForwarderAttached, getMarkerListeners>>

workerVars == <<arControllerInitialized, initInProgress, initAttempts, initFailCount,
                initFailedUntil, delays, listenerVars, loadedMarkers, loadingMarkers, engineLoads, calls,
                initWaiters, req, group, wclock, sent, frameVars, handled>>

vars == <<pluginVars, workerVars>>

(***************************************************************************)
(* Float32Array: a number stored in a Float32Array is rounded to the       *)
(* nearest value with a 24-bit significand (ties to even).  Integers only. *)
(***************************************************************************)
TwoTo24 == 2^24

RECURSIVE Ulp(_, _)
Ulp(x, u) == IF x < TwoTo24 * u THEN u ELSE Ulp(x, 2 * u)

ToFloat32(x) ==
    LET a == IF x < 0 THEN 0 - x ELSE x IN
    IF a <= TwoTo24 THEN x   \* every integer up to 2^24 is a float32
    ELSE
        LET u == Ulp(a, 1)
            q == a \div u
            r == a % u
            up == \/ 2 * r > u
                  \/ (2 * r = u /\ q % 2 = 1)
            v == IF up THEN (q + 1) * u ELSE q * u
        IN  IF x < 0 THEN 0 - v ELSE v

\* new Float32Array(array) / Float32Array.from(array)
Float32Array(a) == [i \in 1..Len(a) |-> ToFloat32(a[i])]

(***************************************************************************)
(* Worker side of a detection batch (src/src/worker/worker.js).            *)
(***************************************************************************)
\* normalizePoseMatrix(mat): a Float32Array of the 16 entries, or null
normalizePoseMatrix(mat) ==
    IF mat = None THEN None
    ELSE IF Len(mat[1]) = 16 THEN Some(Float32Array(mat[1]))
    ELSE None

\* one entry of readDetectionsFromArController's result:
\*   poseMatrix: poseArr ? Array.from(poseArr) : null
Detection(id, raw) == [id |-> id, poseMatrix |-> normalizePoseMatrix(raw)]

Detections == {Detection(id, raw) : id \in MarkerIds, raw \in RawPoses}

SeqsUpTo(S, n) == UNION {[1..k -> S] : k \in 0..n}

Batches == SeqsUpTo(Detections, MaxBatch)

\* Messages a worker sends to the control side.
ReadyMsg == [type |-> "ready", payload |-> None]
ErrorMsgs == {[type |-> "error", payload |-> Some([message |-> "boom"])]}
\* a message of a type the handler has no branch for
OtherMsgs == {[type |-> "pong", payload |-> Some([at |-> 1])]}
\* detectionResult: without payload, with a payload that holds no detections
\* array, with a detections array
DetectionMsgs ==
    {[type |-> "detectionResult", payload |-> None],
     [type |-> "detectionResult", payload |-> Some([detections |-> None])]}
    \cup {[type |-> "detectionResult", payload |-> Some([detections |-> Some(b)])]
            : b \in Batches}

(***************************************************************************)
(* this._markers: a Map, kept as the sequence of its entries in insertion  *)
(* order.  An entry is [id, lastSeen, visible, lostCount].                 *)
(***************************************************************************)
HasMarker(m, id) == \E i \in 1..Len(m) : m[i].id = id

GetMarker(m, id) == m[CHOOSE i \in 1..Len(m) : m[i].id = id]

\* Map.set: replaces the value in place, or appends a new entry
SetMarker(m, id, st) ==
    IF HasMarker(m, id)
    THEN [i \in 1..Len(m) |-> IF m[i].id = id THEN st ELSE m[i]]
    ELSE Append(m, st)

MarkerKeys(m) == {m[i].id : i \in 1..Len(m)}

(***************************************************************************)
(* _onWorkerMessage, the detectionResult loop.                             *)
(***************************************************************************)
\* a faulty variant: every detection is taken for a first detection
AlwaysNewMarker(m, id) == TRUE

\* if (!prev || !prev.visible)
IsNewMarker(m, id) == ~HasMarker(m, id) \/ ~GetMarker(m, id).visible

\* The loop over payload.detections, from marker map m.  The handler runs to
\* completion within one time unit: every iteration's Date.now() is t.
RECURSIVE ProcessDetections(_, _, _)
ProcessDetections(dets, m, t) ==
    IF dets = <<>> THEN [markers |-> m, events |-> <<>>]
    ELSE
        LET d == Head(dets)
            id == d.id
            now == t
            poseMatrix == Float32Array(IF d.poseMatrix = None THEN <<>>
                                       ELSE d.poseMatrix[1])
            isNew == IsNewMarker(m, id)
            m2 == IF isNew
                  THEN SetMarker(m, id, [id |-> id, lastSeen |-> now,
                                         visible |-> TRUE, lostCount |-> 0])
                  ELSE SetMarker(m, id, [GetMarker(m, id) EXCEPT
                                            !.lastSeen = now, !.lostCount = 0])
            ev == [type |-> IF isNew THEN "ar:markerFound" ELSE "ar:markerUpdated",
                   id |-> id, poseMatrix |-> poseMatrix, timestamp |-> now]
            rest == ProcessDetections(Tail(dets), m2, t)
        IN  [markers |-> rest.markers, events |-> <<ev>> \o rest.events]

\* if (!payload || !Array.isArray(payload.detections)) return;
DetectionsOf(msg) ==
    IF msg.payload = None THEN <<>>
    ELSE IF msg.payload[1].detections = None THEN <<>>
    ELSE msg.payload[1].detections[1]

(***************************************************************************)
(* _sweepMarkers.                                                          *)
(***************************************************************************)
\* a faulty variant: a marker is lost as soon as the threshold is reached
IsStaleAtThreshold(st, now, lostThresholdMs) ==
    (now - st.lastSeen) >= lostThresholdMs

\* now - (state.lastSeen || 0) > lostThresholdMs
IsStale(st, now, lostThresholdMs) ==
    (now - (IF st.lastSeen = 0 THEN 0 ELSE st.lastSeen)) > lostThresholdMs

\* a faulty variant: the sweep reports stale markers and keeps their records
SweepKeepsAll(m, now, thr) == m

\* a faulty variant: the sweep keeps a stale record, marked not visible, with
\* one more miss counted
SweepHides(m, now, thr) ==
    [i \in 1..Len(m) |->
        IF IsStale(m[i], now, thr)
        THEN [m[i] EXCEPT !.visible = FALSE, !.lostCount = @ + 1]
        ELSE m[i]]

\* the entries a sweep at time now keeps / deletes, in Map order
SweepKeeps(m, now, thr) ==
    LET Keep(st) == ~IsStale(st, now, thr) IN SelectSeq(m, Keep)

SweepDrops(m, now, thr) ==
    LET Drop(st) == IsStale(st, now, thr) IN SelectSeq(m, Drop)

LostEvents(dropped, now) ==
    [i \in 1..Len(dropped) |->
        [type |-> "ar:markerLost", id |-> dropped[i].id, timestamp |-> now]]

(***************************************************************************)
(* The event bus: what a step emits, and the history of marker events.     *)
(***************************************************************************)
RECURSIVE AfterEvents(_, _)
AfterEvents(rep, evs) ==
    IF evs = <<>> THEN rep
    ELSE LET e == Head(evs)
             rep2 == IF e.type \in {"ar:markerFound", "ar:markerUpdated"}
                     THEN rep \cup {e.id}
                     ELSE IF e.type = "ar:markerLost" THEN rep \ {e.id}
                     ELSE rep
         IN  AfterEvents(rep2, Tail(evs))

\* this.core.eventBus.emit, for each of evs in turn
Emit(evs) ==
    /\ emitted' = evs
    /\ reported' = AfterEvents(reported, evs)

(***************************************************************************)
(* The ARToolKit worker (src/unnamed/part_001): onMessage, initArtoolkit,  *)
(* loadPatternOnce.  A step is one task of the worker's event loop with    *)
(* the microtasks it triggers: a settled promise resumes all its awaiters  *)
(* before the next message is handled.                                     *)
(***************************************************************************)
Min(a, b) == IF a < b THEN a ELSE b

\* Date.now(), in ms
WorkerNow == wclock * 1000

Unsent == [stage |-> "unsent", key |-> None, size |-> 1, call |-> 0, answer |-> None]

\* the state of the module when the worker has loaded
WorkerStart ==
    /\ arControllerInitialized = FALSE
    /\ getMarkerForwarderAttached = FALSE
    /\ getMarkerListeners = 0
    /\ initInProgress = FALSE
    /\ initAttempts = 0
    /\ initFailCount = 0
    /\ initFailedUntil = 0
    /\ delays = <<>>
    /\ loadedMarkers = [k \in PatternUrls |-> None]
    /\ loadingMarkers = [k \in PatternUrls |-> 0]
    /\ engineLoads = {}
    /\ calls = 0
    /\ initWaiters = <<>>
    /\ req = [r \in RequestIds |-> Unsent]
    /\ group = [k \in PatternUrls |->
                    [calls |-> 0, cached |-> FALSE, loads |-> 0, failed |-> 0]]
    /\ wclock = 0
    /\ sent = <<>>
    /\ offscreenCanvas = FALSE
    /\ offscreenCtx = FALSE
    /\ frameWaiters = 0
    /\ handled = <<>>

\* the requests for url k whose handler is suspended
InFlight(rq, k) ==
    {r \in RequestIds : rq[r].stage \in {"awaitInit", "awaitLoad"} /\ rq[r].key = Some(k)}

LoadMarkerOk(r, rq, markerId) ==
    [type |-> "loadMarkerResult",
     payload |-> [ok |-> TRUE, markerId |-> markerId, size |-> rq.size,
                  requestId |-> r]]

\* a faulty variant: the failure goes out as an error message
LoadMarkerFailedBroadcast(r, error) ==
    [type |-> "error",
     payload |-> [ok |-> FALSE, error |-> error, requestId |-> r]]

LoadMarkerFailed(r, error) ==
    [type |-> "loadMarkerResult",
     payload |-> [ok |-> FALSE, error |-> error, requestId |-> r]]

\* a faulty variant: the result is sent twice
ReplyTwice(st, r, msg) ==
    [st EXCEPT !.req[r].stage = "answered",
               !.req[r].answer = Some(msg.payload),
               !.sent = Append(Append(@, msg), msg)]

\* sendMessage of a loadMarkerResult for request r: the handler ends
Reply(st, r, msg) ==
    [st EXCEPT !.req[r].stage = "answered",
               !.req[r].answer = Some(msg.payload),
               !.sent = Append(@, msg)]

\* a faulty variant: a load in flight is never joined
NeverJoinsInFlight(loading, k) == FALSE

\* if (loadingMarkers.has(patternUrl)) return loadingMarkers.get(patternUrl);
JoinsInFlight(loading, k) == loading[k] # 0

\* a faulty variant: the resolved cache is not looked at
NeverCacheHit(loaded, k) == FALSE

\* if (loadedMarkers.has(patternUrl)) return loadedMarkers.get(patternUrl);
CacheHit(loaded, k) == loaded[k] # None

\* The loadMarker handler of request r from `await loadPatternOnce(patternUrl)`
\* to its next await or to its end.  st holds the parts of the worker state
\* the handlers change.
LoadPatternOnce(st, r, loaded) ==
    LET k == st.req[r].key[1] IN
    IF CacheHit(loaded, k)
    THEN Reply(st, r, LoadMarkerOk(r, st.req[r], loaded[k][1]))
    ELSE IF JoinsInFlight(st.loadingMarkers, k)
    THEN [st EXCEPT !.req[r].stage = "awaitLoad",
                    !.req[r].call = st.loadingMarkers[k]]
    ELSE LET c == st.calls + 1 IN
         [st EXCEPT !.req[r].stage = "awaitLoad",
                    !.req[r].call = c,
                    !.calls = c,
                    !.engineLoads = @ \cup {[call |-> c, key |-> k]},
                    !.loadingMarkers[k] = c,
                    !.group[k].calls = @ + 1,
                    !.group[k].loads = @ + 1]

\* a faulty variant: every handler that waited reports the failed init
AfterInitReportsFailure(st, r, ok, loaded) ==
    IF ~ok
    THEN Reply([st EXCEPT !.sent = Append(@, [type |-> "error",
                                               payload |-> [message |-> "ARToolKit init failed",
                                                            retryInMs |-> 0]])],
               r, LoadMarkerFailed(r, "ARToolKit not initialized"))
    ELSE LoadPatternOnce(st, r, loaded)

\* The handler of request r after `await initArtoolkit(640, 480)` returned ok
AfterInit(st, r, ok, loaded) ==
    IF ~ok THEN Reply(st, r, LoadMarkerFailed(r, "ARToolKit not initialized"))
    ELSE LoadPatternOnce(st, r, loaded)

\* the handlers of the requests rs, resumed one after the other
RECURSIVE ResumeAll(_, _, _, _)
ResumeAll(st, rs, ok, loaded) ==
    IF rs = <<>> THEN st
    ELSE ResumeAll(AfterInit(st, Head(rs), ok, loaded), Tail(rs), ok, loaded)

Handlers == [req |-> req, loadingMarkers |-> loadingMarkers,
             engineLoads |-> engineLoads, calls |-> calls, group |-> group,
             sent |-> <<>>]

SetHandlers(st) ==
    /\ req' = st.req
    /\ loadingMarkers' = st.loadingMarkers
    /\ engineLoads' = st.engineLoads
    /\ calls' = st.calls
    /\ group' = st.group
    /\ sent' = st.sent

\* a faulty variant: after a failure the backoff window never ends
InitArtoolkitEntryStaysFailed ==
    IF arControllerInitialized THEN "ok"
    ELSE IF initFailedUntil > 0 THEN "backoff"
    ELSE IF initInProgress THEN "join"
    ELSE "start"

\* a faulty variant: an initialised engine is not looked at
InitArtoolkitEntryNoCheck ==
    IF WorkerNow < initFailedUntil THEN "backoff"
    ELSE IF initInProgress THEN "join"
    ELSE "start"

\* a faulty variant: an attempt in flight is not looked at
InitArtoolkitEntryNoJoin ==
    IF arControllerInitialized THEN "ok"
    ELSE IF WorkerNow < initFailedUntil THEN "backoff"
    ELSE "start"

\* a faulty variant: the backoff window is not looked at
InitArtoolkitEntryNoBackoff ==
    IF arControllerInitialized THEN "ok"
    ELSE IF initInProgress THEN "join"
    ELSE "start"

\* initArtoolkit up to its first await: "ok" / "backoff" (it returns without
\* suspending), "join" (it awaits the attempt in flight), "start" (it starts
\* an attempt and awaits it)
InitArtoolkitEntry ==
    IF arControllerInitialized THEN "ok"
    ELSE IF WorkerNow < initFailedUntil THEN "backoff"
    ELSE IF initInProgress THEN "join"
    ELSE "start"

\* a step in which no processFrame handler runs
NoFrames ==
    /\ handled' = <<>>
    /\ UNCHANGED frameVars

\* a faulty variant: init starts an attempt when none is excluded
RecvInitEager ==
    /\ sent' = <<[type |-> "ready"]>>
    /\ NoFrames
    /\ initInProgress' = (initInProgress \/ InitArtoolkitEntry = "start")
    /\ initAttempts' = initAttempts + (IF InitArtoolkitEntry = "start" THEN 1 ELSE 0)
    /\ UNCHANGED <<arControllerInitialized, initFailCount,
                   initFailedUntil, delays, listenerVars, loadedMarkers, loadingMarkers, engineLoads,
                   calls, initWaiters, req, group, wclock>>
    /\ UNCHANGED pluginVars

\* type === 'init'
RecvInit ==
    /\ sent' = <<[type |-> "ready"]>>
    /\ NoFrames
    /\ UNCHANGED <<arControllerInitialized, initInProgress, initAttempts, initFailCount,
                   initFailedUntil, delays, listenerVars, loadedMarkers, loadingMarkers, engineLoads,
                   calls, initWaiters, req, group, wclock>>
    /\ UNCHANGED pluginVars

\* type === 'loadMarker', request r for patternUrl key (None: no patternUrl)
RecvLoadMarker(r, key) ==
    /\ req[r].stage = "unsent"
    /\ \A q \in 1..(r - 1) : req[q].stage # "unsent"
    /\ NoFrames
    /\ UNCHANGED <<arControllerInitialized, initFailCount, initFailedUntil, delays, listenerVars,
                   loadedMarkers, wclock>>
    /\ UNCHANGED pluginVars
    /\ LET entry == InitArtoolkitEntry
           grp == IF key = None \/ InFlight(req, key[1]) # {} THEN group
                  ELSE [group EXCEPT ![key[1]].calls = 0,
                                     ![key[1]].cached = loadedMarkers[key[1]] # None]
           st0 == [Handlers EXCEPT !.req[r].key = key, !.group = grp]
       IN  IF key = None
           THEN /\ SetHandlers(Reply(st0, r,
                        LoadMarkerFailed(r, "Missing patternUrl parameter")))
                /\ UNCHANGED <<initInProgress, initAttempts, initWaiters>>
           ELSE IF entry \in {"ok", "backoff"}
           THEN /\ SetHandlers(AfterInit(st0, r, entry = "ok", loadedMarkers))
                /\ UNCHANGED <<initInProgress, initAttempts, initWaiters>>
           ELSE /\ SetHandlers([st0 EXCEPT !.req[r].stage = "awaitInit"])
                /\ initInProgress' = TRUE
                /\ initAttempts' = initAttempts + (IF entry = "start" THEN 1 ELSE 0)
                /\ initWaiters' = Append(initWaiters, r)

\* What can go wrong while a handler composites a frame and hands it to the
\* engine: nothing, new OffscreenCanvas throws, getContext throws, drawImage
\* throws, arController.process throws for the canvas, or for the canvas and
\* for the image data.
FrameFaults == {"none", "canvas", "context", "draw", "process", "both"}

Call(op, threw) == [op |-> op, threw |-> threw]

\* a faulty variant: nothing is tried after process raised on the canvas
NoFallback(fault) == <<>>

\* the catch of arController.process(offscreenCanvas): the pixels are read
\* and handed to process, whose exception is caught and logged
Fallback(fault) ==
    <<Call("getImageData", FALSE), Call("process(imgData)", fault = "both")>>

\* a faulty variant: the bitmap is closed after the engine has run
CompositeFrameClosesLast(canvas, ctx, initialized, fault) ==
    [offscreenCanvas |-> TRUE, offscreenCtx |-> TRUE,
     frame |-> [initialized |-> initialized,
                calls |-> <<Call("clearRect", FALSE), Call("drawImage", FALSE)>>
                          \o (IF initialized
                              THEN <<Call("process(canvas)", FALSE)>> ELSE <<>>)
                          \o <<Call("close", FALSE)>>]]

\* The processFrame handler of a frame with a bitmap, from the line after
\* `await initArtoolkit(w, h)` to its end: the calls it makes, in order, and
\* the canvas it leaves.  All frames have the same dimensions.
CompositeFrame(canvas, ctx, initialized, fault) ==
    LET alloc == ~canvas
        canvasThrows == alloc /\ fault = "canvas"
        contextThrows == alloc /\ fault = "context"
        canvas2 == canvas \/ (alloc /\ ~canvasThrows)
        ctx2 == IF alloc /\ ~canvasThrows THEN ~contextThrows ELSE ctx
        c1 == IF ~alloc THEN <<>>
              ELSE IF canvasThrows THEN <<Call("new OffscreenCanvas", TRUE)>>
              ELSE <<Call("new OffscreenCanvas", FALSE),
                     Call("getContext", contextThrows)>>
        out(cs) == [offscreenCanvas |-> canvas2, offscreenCtx |-> ctx2,
                    frame |-> [initialized |-> initialized, calls |-> cs]]
    IN  IF canvasThrows \/ contextThrows THEN out(c1)
        ELSE IF ~ctx2 THEN out(c1 \o <<Call("clearRect", TRUE)>>)
        ELSE IF fault = "draw"
        THEN out(c1 \o <<Call("clearRect", FALSE), Call("drawImage", TRUE)>>)
        ELSE
            LET c2 == c1 \o <<Call("clearRect", FALSE), Call("drawImage", FALSE),
                               Call("close", FALSE)>>
            IN  IF ~initialized THEN out(c2)
                ELSE IF fault \notin {"process", "both"}
                THEN out(c2 \o <<Call("process(canvas)", FALSE)>>)
                ELSE out(c2 \o <<Call("process(canvas)", TRUE)>> \o Fallback(fault))

\* the suspended processFrame handlers resume one after the other; faults
\* holds what goes wrong in each
RECURSIVE ResumeFrames(_, _, _, _)
ResumeFrames(canvas, ctx, initialized, faults) ==
    IF faults = <<>>
    THEN [offscreenCanvas |-> canvas, offscreenCtx |-> ctx, handled |-> <<>>]
    ELSE LET r == CompositeFrame(canvas, ctx, initialized, Head(faults))
             rest == ResumeFrames(r.offscreenCanvas, r.offscreenCtx, initialized,
                                  Tail(faults))
         IN  [rest EXCEPT !.handled = <<r.frame>> \o @]

SetFrames(r) ==
    /\ offscreenCanvas' = r.offscreenCanvas
    /\ offscreenCtx' = r.offscreenCtx
    /\ handled' = r.handled

\* type === 'processFrame' in a browser worker.  With a bitmap the handler
\* awaits initArtoolkit(w, h), which starts an attempt when none is in flight
\* and none is excluded by the backoff; without a bitmap it does nothing.
RecvProcessFrame(imageBitmap, fault) ==
    /\ sent' = <<>>
    /\ UNCHANGED <<arControllerInitialized, initFailCount, initFailedUntil, delays, listenerVars,
                   loadedMarkers, loadingMarkers, engineLoads, calls, initWaiters,
                   req, group, wclock>>
    /\ UNCHANGED pluginVars
    /\ IF ~imageBitmap
       THEN /\ NoFrames
            /\ UNCHANGED <<initInProgress, initAttempts>>
       ELSE IF InitArtoolkitEntry \in {"ok", "backoff"}
       THEN /\ SetFrames(ResumeFrames(offscreenCanvas, offscreenCtx,
                                      arControllerInitialized, <<fault>>))
            /\ UNCHANGED <<initInProgress, initAttempts, frameWaiters>>
       ELSE /\ frameWaiters < MaxFrameWaiters
            /\ frameWaiters' = frameWaiters + 1
            /\ initInProgress' = TRUE
            /\ initAttempts' = initAttempts
                               + (IF InitArtoolkitEntry = "start" THEN 1 ELSE 0)
            /\ handled' = <<>>
            /\ UNCHANGED <<offscreenCanvas, offscreenCtx>>

\* attachGetMarkerForwarder: the listener is added unless it was before
\* (the engine has addEventListener)
AttachesListener(attached) == ~attached

\* a faulty variant: the delay is not capped
BackoffDelayUncapped(failCount) == 1000 * 2^failCount

\* const delay = Math.min(30000, 1000 * Math.pow(2, initFailCount))
BackoffDelay(failCount) == Min(30000, 1000 * 2^failCount)

\* the message of a failed init attempt
InitFailedMsg(delay) ==
    [type |-> "error",
     payload |-> [message |-> "ARToolKit init failed", retryInMs |-> delay]]

\* The init attempt in flight settles: ok, or an import or
\* ARController.initWithDimensions failed.  Then every awaiter resumes.
InitSettles(ok, faults) ==
    /\ initInProgress
    /\ ok \/ Len(delays) < MaxFailures
    /\ initInProgress' = FALSE
    /\ initAttempts' = initAttempts - 1
    /\ initWaiters' = <<>>
    /\ frameWaiters' = 0
    /\ SetFrames(ResumeFrames(offscreenCanvas, offscreenCtx, ok, faults))
    /\ LET failCount == Min(initFailCount + 1, 6)
           delay == BackoffDelay(failCount)
           st0 == [Handlers EXCEPT
                     !.sent = IF ok THEN <<>> ELSE <<InitFailedMsg(delay)>>]
       IN  /\ arControllerInitialized' = ok
           /\ initFailCount' = IF ok THEN 0 ELSE failCount
           /\ initFailedUntil' = IF ok THEN 0 ELSE WorkerNow + delay
           /\ delays' = IF ok THEN <<>> ELSE Append(delays, delay)
           /\ getMarkerForwarderAttached' = (getMarkerForwarderAttached \/ ok)
           /\ getMarkerListeners' =
                IF ok /\ AttachesListener(getMarkerForwarderAttached)
                THEN getMarkerListeners + 1 ELSE getMarkerListeners
           /\ SetHandlers(ResumeAll(st0, initWaiters, ok, loadedMarkers))
    /\ UNCHANGED <<loadedMarkers, wclock>>
    /\ UNCHANGED pluginVars

\* the handlers that await engine call c, answered one after the other
RECURSIVE AnswerAll(_, _, _, _)
AnswerAll(st, r, c, outcome) ==
    IF r > MaxRequests THEN st
    ELSE IF st.req[r].stage = "awaitLoad" /\ st.req[r].call = c
    THEN AnswerAll(Reply(st, r, IF outcome = None
                                THEN LoadMarkerFailed(r, "load failed")
                                ELSE LoadMarkerOk(r, st.req[r], outcome[1])),
                   r + 1, c, outcome)
    ELSE AnswerAll(st, r + 1, c, outcome)

\* a faulty variant: the in-flight entry outlives its load
LoadingMarkersKept(loading, k) == loading

\* loadingMarkers.delete(patternUrl)
LoadingMarkersDelete(loading, k) == [loading EXCEPT ![k] = 0]

\* a faulty variant: the id of a loaded pattern is not kept
LoadedMarkersUnset(loaded, k, id) == loaded

\* loadedMarkers.set(patternUrl, id)
LoadedMarkersSet(loaded, k, id) == [loaded EXCEPT ![k] = Some(id)]

\* arController.loadMarker call e settles with a marker id, or fails
LoadSettles(e, ok) ==
    /\ e \in engineLoads
    /\ NoFrames
    /\ LET k == e.key
           outcome == IF ok THEN Some(e.call) ELSE None
           st0 == [Handlers EXCEPT !.engineLoads = @ \ {e},
                                   !.loadingMarkers = LoadingMarkersDelete(@, k),
                                   !.group[k].failed = @ + (IF ok THEN 0 ELSE 1)]
       IN  /\ loadedMarkers' = IF ok THEN LoadedMarkersSet(loadedMarkers, k, e.call)
                               ELSE loadedMarkers
           /\ SetHandlers(AnswerAll(st0, 1, e.call, outcome))
    /\ UNCHANGED <<arControllerInitialized, initInProgress, initAttempts, initFailCount,
                   initFailedUntil, delays, listenerVars, initWaiters, wclock>>
    /\ UNCHANGED pluginVars

\* time passes in the worker until the backoff window is over
BackoffElapses ==
    /\ WorkerNow < initFailedUntil
    /\ wclock' = initFailedUntil \div 1000
    /\ sent' = <<>>
    /\ NoFrames
    /\ UNCHANGED <<arControllerInitialized, initInProgress, initAttempts, initFailCount,
                   initFailedUntil, delays, listenerVars, loadedMarkers, loadingMarkers, engineLoads,
                   calls, initWaiters, req, group>>
    /\ UNCHANGED pluginVars

\* time passes in the worker
WorkerTick ==
    /\ wclock < MaxWorkerTime
    /\ wclock' = wclock + 1
    /\ sent' = <<>>
    /\ NoFrames
    /\ UNCHANGED <<arControllerInitialized, initInProgress, initAttempts, initFailCount,
                   initFailedUntil, delays, listenerVars, loadedMarkers, loadingMarkers, engineLoads,
                   calls, initWaiters, req, group>>
    /\ UNCHANGED pluginVars

LoadMarkerRequest ==
    \E r \in RequestIds : \E key \in {None} \cup {Some(k) : k \in PatternUrls} :
        RecvLoadMarker(r, key)

InitAttemptEnds ==
    \E ok \in BOOLEAN : \E faults \in [1..frameWaiters -> FrameFaults] :
        InitSettles(ok, faults)

ProcessFrameRequest ==
    \E imageBitmap \in BOOLEAN : \E fault \in FrameFaults :
        RecvProcessFrame(imageBitmap, fault)

\* getMarker events of the engine: the type, the matrix (none, or an array),
\* the pattern id under one of its names and the confidence in hundredths
GetMarkerEvents ==
    [type : {PATTERN_MARKER, 1},
     matrix : {None, Some(Fill(16, 1)), Some(Fill(17, 1))},
     idPatt : {None, Some(7)},
     patternId : {None, Some(8)},
     cfPatt : {90}]

\* serializeGetMarkerEvent(ev)
SerializeGetMarkerEvent(ev) ==
    [type |-> ev.type,
     matrix |-> IF ev.matrix = None THEN None
                ELSE Some(SubSeq(ev.matrix[1], 1, Min(Len(ev.matrix[1]), 16))),
     marker |-> [idPatt |-> IF ev.idPatt # None THEN ev.idPatt ELSE ev.patternId,
                 cfPatt |-> ev.cfPatt]]

\* the listener added by attachGetMarkerForwarder: the engine emits a
\* getMarker event, at a time of its choice, and every listener sends it on
OnGetMarkerEvent(ev) ==
    /\ getMarkerListeners > 0
    /\ sent' = [i \in 1..getMarkerListeners |->
                  [type |-> "getMarker", payload |-> SerializeGetMarkerEvent(ev)]]
    /\ NoFrames
    /\ UNCHANGED <<arControllerInitialized, initInProgress, initAttempts, initFailCount,
                   initFailedUntil, delays, listenerVars, loadedMarkers, loadingMarkers,
                   engineLoads, calls, initWaiters, req, group, wclock>>
    /\ UNCHANGED pluginVars

EngineEmitsGetMarker == \E ev \in GetMarkerEvents : OnGetMarkerEvent(ev)

\* the first loadMarker request of a run, for a patternUrl
FirstLoadMarkerRequest == \E key \in PatternUrls : RecvLoadMarker(1, Some(key))

\* the same two steps when compositing and the engine's process never fail
InitAttemptEndsNoFault ==
    \E ok \in BOOLEAN : InitSettles(ok, [i \in 1..frameWaiters |-> "none"])

ProcessFrameRequestNoFault ==
    \E imageBitmap \in BOOLEAN : RecvProcessFrame(imageBitmap, "none")

EngineLoadEnds == \E e \in engineLoads : \E ok \in BOOLEAN : LoadSettles(e, ok)

(***************************************************************************)
(* Plugin lifecycle: constructor, init, enable, disable, _startWorker,     *)
(* _stopWorker.                                                            *)
(***************************************************************************)
\* the awaits at which an enable() call can be suspended
AwaitPoints == {"import_wt",   \* _startWorker: await import('node:worker_threads')
                "import_url",  \* _startWorker: await import('node:url')
                "started"}     \* enable: await this._startWorker()

PendingCount == pending["import_wt"] + pending["import_url"] + pending["started"]

Suspend(p, at) == [p EXCEPT ![at] = @ + 1]
Resume(p, at) == [p EXCEPT ![at] = @ - 1]

\* the handle of a new worker / a new interval timer
FreshId(used) == CHOOSE i \in 1..(Cardinality(used) + 1) :
                    i \notin used /\ \A j \in 1..(i - 1) : j \in used

InitMsg(w) == [to |-> w, type |-> "init", payload |-> None, threw |-> FALSE]

NoOutput ==
    /\ received' = None
    /\ Emit(<<>>)
    /\ posted' = <<>>
    /\ terminated' = <<>>
    /\ thrown' = FALSE

\* constructor(options), but for the options of the raw-event filter
Constructed ==
    /\ env \in Envs
    /\ workerEnabled \in BOOLEAN
    /\ lostThreshold \in LostThresholdOptions
    /\ frameDurationMs \in FrameDurationOptions
    /\ core = FALSE
    /\ enabled = FALSE
    /\ stoppedWorker = FALSE
    /\ heldAtDisable = {}
    /\ subscriptions = 0
    /\ worker = 0
    /\ liveWorkers = {}
    /\ listening = {}
    /\ sweepInterval = 0
    /\ timers = {}
    /\ pending = [a \in AwaitPoints |-> 0]
    /\ markers = <<>>
    /\ clock = 0
    /\ received = None
    /\ emitted = <<>>
    /\ reported = {}
    /\ posted = <<>>
    /\ unprocessed = 0
    /\ terminated = <<>>
    /\ thrown = FALSE
    /\ nextRequestId = 0
    /\ pendingRequests = [id \in CallIds |-> None]
    /\ settled = [id \in CallIds |-> None]
    /\ rpcClock = 0
    /\ WorkerStart

\* constructor(options) with the default options of the raw-event filter
Init ==
    /\ Constructed
    /\ minConfidence = DefaultMinConfidence
    /\ trackedPatternIds = {}

\* constructor(options) with a minConfidence and tracked pattern ids
InitForward ==
    /\ Constructed
    /\ minConfidence \in MinConfidenceOptions
    /\ trackedPatternIds \in TrackedPatternIdOptions

options == <<env, workerEnabled, lostThreshold, frameDurationMs, minConfidence,
             trackedPatternIds>>

\* async init(core)
InitCall ==
    /\ core' = TRUE
    /\ NoOutput
    /\ UNCHANGED <<workerVars, rpcVars, unprocessed, options, enabled, stoppedWorker, heldAtDisable, subscriptions, worker, liveWorkers, listening,
                   sweepInterval, timers, pending, markers, clock>>

\* a faulty variant: enable() does not look at this.enabled
EnableNeverReturnsEarly == FALSE

\* if (this.enabled) return this;
EnableReturnsEarly == enabled

\* _startWorker, from `new Worker(...)` to its end: the worker is created and
\* stored in this._worker, the message handler attached, init posted.
CreateWorker ==
    LET w == FreshId(liveWorkers) IN
    /\ worker' = w
    /\ liveWorkers' = liveWorkers \cup {w}
    /\ listening' = listening \cup {w}
    /\ posted' = <<InitMsg(w)>>

\* a faulty variant: enable() starts no sweep timer
NoSweepTimer == UNCHANGED <<sweepInterval, timers>>

\* this._sweepInterval = setInterval(() => this._sweepMarkers(), sweepIntervalMs)
StartSweepTimer ==
    LET t == FreshId(timers) IN
    /\ sweepInterval' = t
    /\ timers' = timers \cup {t}

\* enable(), up to its first await or to its end
EnableCall ==
    /\ UNCHANGED <<workerVars, rpcVars, unprocessed, options, core, markers, clock>>
    /\ received' = None
    /\ Emit(<<>>)
    /\ terminated' = <<>>
    /\ IF ~core
       THEN \* throw new Error('Plugin not initialized')
            /\ thrown' = TRUE
            /\ posted' = <<>>
            /\ UNCHANGED <<enabled, stoppedWorker, heldAtDisable, subscriptions, worker, liveWorkers, listening,
                           sweepInterval, timers, pending>>
       ELSE IF EnableReturnsEarly
       THEN /\ thrown' = FALSE
            /\ posted' = <<>>
            /\ UNCHANGED <<enabled, stoppedWorker, heldAtDisable, subscriptions, worker, liveWorkers, listening,
                           sweepInterval, timers, pending>>
       ELSE /\ PendingCount < MaxPending
            /\ Cardinality(timers) + PendingCount < MaxLive
            /\ Cardinality(liveWorkers) + PendingCount < MaxLive
            /\ thrown' = FALSE
            /\ enabled' = TRUE
            /\ stoppedWorker' = FALSE
            /\ heldAtDisable' = heldAtDisable
            /\ subscriptions' = subscriptions + 1
            /\ IF ~workerEnabled
               THEN /\ StartSweepTimer
                    /\ posted' = <<>>
                    /\ UNCHANGED <<worker, liveWorkers, listening, pending>>
               ELSE IF worker # 0
               THEN \* _startWorker: if (this._worker) return;
                    /\ pending' = Suspend(pending, "started")
                    /\ posted' = <<>>
                    /\ UNCHANGED <<worker, liveWorkers, listening, sweepInterval,
                                   timers>>
               ELSE IF env = "browser"
               THEN /\ CreateWorker
                    /\ pending' = Suspend(pending, "started")
                    /\ UNCHANGED <<sweepInterval, timers>>
               ELSE /\ pending' = Suspend(pending, "import_wt")
                    /\ posted' = <<>>
                    /\ UNCHANGED <<worker, liveWorkers, listening, sweepInterval,
                                   timers>>

\* Node: import('node:worker_threads') has resolved
ResumeImportWt ==
    /\ pending["import_wt"] > 0
    /\ pending' = Suspend(Resume(pending, "import_wt"), "import_url")
    /\ NoOutput
    /\ UNCHANGED <<workerVars, rpcVars, unprocessed, options, core, enabled, stoppedWorker, heldAtDisable, subscriptions, worker, liveWorkers,
                   listening, sweepInterval, timers, markers, clock>>

\* Node: import('node:url') has resolved; the rest of _startWorker runs
ResumeImportUrl ==
    /\ pending["import_url"] > 0
    /\ pending' = Suspend(Resume(pending, "import_url"), "started")
    /\ CreateWorker
    /\ received' = None
    /\ Emit(<<>>)
    /\ terminated' = <<>>
    /\ thrown' = FALSE
    /\ UNCHANGED <<workerVars, rpcVars, unprocessed, options, core, enabled, stoppedWorker, heldAtDisable, subscriptions, sweepInterval, timers,
                   markers, clock>>

\* enable() after `await this._startWorker()`
ResumeStarted ==
    /\ pending["started"] > 0
    /\ pending' = Resume(pending, "started")
    /\ StartSweepTimer
    /\ NoOutput
    /\ UNCHANGED <<workerVars, rpcVars, unprocessed, options, core, enabled, stoppedWorker, heldAtDisable, subscriptions, worker, liveWorkers,
                   listening, markers, clock>>

\* if (!this.enabled) return this;
DisableReturnsEarly == ~enabled

\* disable() (it has no await)
DisableCall ==
    /\ UNCHANGED <<workerVars, rpcVars, unprocessed, options, core, pending, markers, clock>>
    /\ received' = None
    /\ Emit(<<>>)
    /\ posted' = <<>>
    /\ thrown' = FALSE
    /\ IF DisableReturnsEarly
       THEN /\ terminated' = <<>>
            /\ UNCHANGED <<enabled, stoppedWorker, heldAtDisable, subscriptions, worker, liveWorkers, listening,
                           sweepInterval, timers>>
       ELSE /\ enabled' = FALSE
            /\ stoppedWorker' = (worker # 0)
            /\ heldAtDisable' = MarkerKeys(markers)
            /\ subscriptions' = IF subscriptions > 0 THEN subscriptions - 1 ELSE 0
            /\ IF worker # 0
               THEN \* _stopWorker
                    /\ listening' = listening \ {worker}
                    /\ liveWorkers' = liveWorkers \ {worker}
                    /\ terminated' = <<worker>>
                    /\ worker' = 0
               ELSE /\ terminated' = <<>>
                    /\ UNCHANGED <<worker, liveWorkers, listening>>
            /\ IF sweepInterval # 0
               THEN /\ timers' = timers \ {sweepInterval}
                    /\ sweepInterval' = 0
               ELSE UNCHANGED <<sweepInterval, timers>>

(***************************************************************************)
(* _onWorkerMessage: called for each message of a worker whose message     *)
(* handler is attached.                                                    *)
(***************************************************************************)
lifecycle == <<core, enabled, stoppedWorker, heldAtDisable, subscriptions, worker, liveWorkers, listening,
               sweepInterval, timers, pending>>

\* type === 'ready'
OnReady ==
    /\ listening # {}
    /\ received' = Some(ReadyMsg)
    /\ Emit(<<[type |-> "ar:workerReady"]>>)
    /\ posted' = <<>>
    /\ terminated' = <<>>
    /\ thrown' = FALSE
    /\ UNCHANGED <<workerVars, rpcVars, unprocessed, options, lifecycle, markers, clock>>

\* a faulty variant: a marker that is absent from the batch is dropped and
\* reported lost at once
BatchOutcomeByComparison(dets, m, t) ==
    LET r == ProcessDetections(dets, m, t)
        InBatch(st) == \E i \in 1..Len(dets) : dets[i].id = st.id
        NotInBatch(st) == ~InBatch(st)
    IN  [markers |-> SelectSeq(r.markers, InBatch),
         events |-> r.events \o LostEvents(SelectSeq(r.markers, NotInBatch), t)]

\* the detectionResult branch: the marker map and the events it yields
BatchOutcome(dets, m, t) == ProcessDetections(dets, m, t)

\* type === 'detectionResult'
OnDetectionResult(msg) ==
    LET r == BatchOutcome(DetectionsOf(msg), markers, clock)
    IN  /\ listening # {}
        /\ markers' = r.markers
        /\ received' = Some(msg)
        /\ Emit(r.events)
        /\ posted' = <<>>
        /\ terminated' = <<>>
        /\ thrown' = FALSE
        /\ UNCHANGED <<workerVars, rpcVars, unprocessed, options, lifecycle, clock>>

\* a faulty variant: the error is reported by message text, and once more
\* as a lost worker
OnErrorReportedTwice(msg) ==
    /\ listening # {}
    /\ received' = Some(msg)
    /\ Emit(<<[type |-> "ar:workerError", payload |-> Some(msg.payload[1].message)],
              [type |-> "ar:workerError", payload |-> None]>>)
    /\ posted' = <<>>
    /\ terminated' = <<>>
    /\ thrown' = FALSE
    /\ UNCHANGED <<workerVars, rpcVars, unprocessed, options, lifecycle, markers, clock>>

\* type === 'error'
OnError(msg) ==
    /\ listening # {}
    /\ received' = Some(msg)
    /\ Emit(<<[type |-> "ar:workerError", payload |-> msg.payload]>>)
    /\ posted' = <<>>
    /\ terminated' = <<>>
    /\ thrown' = FALSE
    /\ UNCHANGED <<workerVars, rpcVars, unprocessed, options, lifecycle, markers, clock>>

\* any other type: no branch is taken
OnOther(msg) ==
    /\ listening # {}
    /\ received' = Some(msg)
    /\ Emit(<<>>)
    /\ posted' = <<>>
    /\ terminated' = <<>>
    /\ thrown' = FALSE
    /\ UNCHANGED <<workerVars, rpcVars, unprocessed, options, lifecycle, markers, clock>>

OnWorkerMessage ==
    \/ OnReady
    \/ \E msg \in DetectionMsgs : OnDetectionResult(msg)
    \/ \E msg \in ErrorMsgs : OnError(msg)
    \/ \E msg \in OtherMsgs : OnOther(msg)

(***************************************************************************)
(* Raw getMarker events.  The filter is modelled from the specification    *)
(* (6, raw-event forwarding filter) and the plugin's tests                 *)
(* (src/unnamed/part_007).                                                 *)
(***************************************************************************)
\* getMarker messages as the worker serializes them: the type, the matrix
\* (null, or its entries), the pattern id and the confidence in hundredths
GetMarkerMsgs ==
    {[type |-> "getMarker",
      payload |-> Some([type |-> t, matrix |-> m,
                        marker |-> [idPatt |-> id, cfPatt |-> cf]])]
        : t \in {PATTERN_MARKER, 1}, m \in {None, Some(Fill(12, 1)), Some(Fill(16, 1))},
          id \in {7, 8}, cf \in {50, 60, 90}}

\* a faulty variant: a confidence equal to the minimum is not enough
ForwardsAboveMinimum(payload, minConf, tracked) ==
    /\ payload.type = PATTERN_MARKER
    /\ payload.marker.cfPatt > minConf
    /\ payload.matrix # None
    /\ Len(payload.matrix[1]) >= 16
    /\ (tracked # {} => payload.marker.idPatt \in tracked)

\* the raw-event forwarding filter
Forwards(payload, minConf, tracked) ==
    /\ payload.type = PATTERN_MARKER
    /\ payload.marker.cfPatt >= minConf
    /\ payload.matrix # None
    /\ Len(payload.matrix[1]) >= 16
    /\ (tracked # {} => payload.marker.idPatt \in tracked)

\* type === 'getMarker'
OnGetMarker(msg) ==
    /\ listening # {}
    /\ received' = Some(msg)
    /\ Emit(IF Forwards(msg.payload[1], minConfidence, trackedPatternIds)
            THEN <<[type |-> "ar:getMarker", payload |-> msg.payload]>>
            ELSE <<>>)
    /\ posted' = <<>>
    /\ terminated' = <<>>
    /\ thrown' = FALSE
    /\ UNCHANGED <<workerVars, rpcVars, unprocessed, options, lifecycle, markers, clock>>

GetMarkerArrives == \E msg \in GetMarkerMsgs : OnGetMarker(msg)

(***************************************************************************)
(* loadMarker(patternUrl, size) of the plugin and its pending requests,    *)
(* modelled from the specification (4.6 Orchestrator, PendingRequest) and  *)
(* the plugin's tests (src/tests/plugin.spec.ts, src/unnamed/part_007).    *)
(***************************************************************************)
LoadMarkerTimeoutMs == 10000
\* Date.now() as the timers see it: the clock advances in steps of 5 s
RpcNow == rpcClock * 5000
\* the latest time the clock reaches
RpcHorizon == MaxRpcTime * 5000

LoadMarkerMsg(w, patternUrl, size, requestId) ==
    [to |-> w, type |-> "loadMarker",
     payload |-> Some([patternUrl |-> patternUrl, size |-> size,
                       requestId |-> requestId]),
     threw |-> FALSE]

\* loadMarkerResult messages: ok or failed, for any requestId
LoadMarkerResults ==
    {[type |-> "loadMarkerResult",
      payload |-> Some([ok |-> TRUE, markerId |-> 42, size |-> sz, requestId |-> id])]
        : sz \in MarkerSizes, id \in CallIds}
    \cup {[type |-> "loadMarkerResult",
           payload |-> Some([ok |-> FALSE, error |-> "load failed", requestId |-> id])]
            : id \in CallIds}

Resolved(value) == Some([resolved |-> TRUE, value |-> value])
Rejected(error) == Some([resolved |-> FALSE, error |-> error])

\* a faulty variant: the timer is armed and nothing is due, ever
TimerNeverDue(createdAt, now) == FALSE

\* the timer of a request created at createdAt has run out
TimerDue(createdAt, now) == now - createdAt >= LoadMarkerTimeoutMs

\* a faulty variant: the promise settles with the worker's payload as it is
LoadMarkerValueRaw(payload) == payload

\* what a loadMarker promise resolves with
LoadMarkerValue(payload) == [markerId |-> payload.markerId, size |-> payload.size]

\* loadMarker(patternUrl, size) with a worker: a requestId is allocated, the
\* request is stored with its timer, one loadMarker message is posted.  Calls
\* are made while the timer can run out within the clock's range.
LoadMarker(patternUrl, size) ==
    /\ worker # 0
    /\ nextRequestId < MaxCalls
    /\ RpcNow + LoadMarkerTimeoutMs <= RpcHorizon
    /\ nextRequestId' = nextRequestId + 1
    /\ pendingRequests' = [pendingRequests EXCEPT
                              ![nextRequestId] = Some([createdAt |-> RpcNow])]
    /\ posted' = <<LoadMarkerMsg(worker, patternUrl, size, nextRequestId)>>
    /\ received' = None
    /\ Emit(<<>>)
    /\ terminated' = <<>>
    /\ thrown' = FALSE
    /\ UNCHANGED <<workerVars, unprocessed, options, lifecycle, markers, clock,
                   settled, rpcClock>>

\* a faulty variant: a result settles the oldest pending request
OldestPending(payload, pend) ==
    IF \E id \in CallIds : pend[id] # None
    THEN CHOOSE id \in CallIds :
            pend[id] # None /\ \A j \in CallIds : pend[j] # None => id <= j
    ELSE payload.requestId

\* the pending request a loadMarkerResult is for
RequestOf(payload, pend) == payload.requestId

\* type === 'loadMarkerResult': the pending request with the message's
\* requestId is removed and its promise settled; without one nothing happens
OnLoadMarkerResult(msg) ==
    LET payload == msg.payload[1]
        id == RequestOf(payload, pendingRequests)
    IN  /\ listening # {}
        /\ received' = Some(msg)
        /\ Emit(<<>>)
        /\ posted' = <<>>
        /\ terminated' = <<>>
        /\ thrown' = FALSE
        /\ IF pendingRequests[id] = None
           THEN UNCHANGED <<pendingRequests, settled>>
           ELSE /\ pendingRequests' = [pendingRequests EXCEPT ![id] = None]
                /\ settled' = [settled EXCEPT ![id] =
                                  IF payload.ok THEN Resolved(LoadMarkerValue(payload))
                                  ELSE Rejected(payload.error)]
        /\ UNCHANGED <<workerVars, unprocessed, options, lifecycle, markers, clock,
                       nextRequestId, rpcClock>>

\* the timer of pending request id runs out
LoadMarkerTimeout(id) ==
    /\ pendingRequests[id] # None
    /\ TimerDue(pendingRequests[id][1].createdAt, RpcNow)
    /\ pendingRequests' = [pendingRequests EXCEPT ![id] = None]
    /\ settled' = [settled EXCEPT ![id] = Rejected("loadMarker timed out")]
    /\ NoOutput
    /\ UNCHANGED <<workerVars, unprocessed, options, lifecycle, markers, clock,
                   nextRequestId, rpcClock>>

\* time passes for the request timers; a timer that is due runs first
RpcTick ==
    /\ rpcClock < MaxRpcTime
    /\ \A id \in CallIds :
          pendingRequests[id] # None
          => ~TimerDue(pendingRequests[id][1].createdAt, RpcNow)
    /\ rpcClock' = rpcClock + 1
    /\ NoOutput
    /\ UNCHANGED <<workerVars, unprocessed, options, lifecycle, markers, clock,
                   nextRequestId, pendingRequests, settled>>

LoadMarkerCall ==
    \E patternUrl \in PatternUrls : \E size \in MarkerSizes :
        LoadMarker(patternUrl, size)

LoadMarkerResultArrives == \E msg \in LoadMarkerResults : OnLoadMarkerResult(msg)

LoadMarkerTimesOut == \E id \in CallIds : LoadMarkerTimeout(id)

(***************************************************************************)
(* _sweepMarkers: called by every running interval timer.                  *)
(***************************************************************************)
SweepMarkers ==
    LET now == clock
        lostThresholdMs == lostThreshold * frameDurationMs
    IN  /\ timers # {}
        /\ markers' = SweepKeeps(markers, now, lostThresholdMs)
        /\ heldAtDisable' = heldAtDisable
                \ MarkerKeys(SweepDrops(markers, now, lostThresholdMs))
        /\ received' = None
        /\ Emit(LostEvents(SweepDrops(markers, now, lostThresholdMs), now))
        /\ posted' = <<>>
        /\ terminated' = <<>>
        /\ thrown' = FALSE
        /\ UNCHANGED <<workerVars, rpcVars, unprocessed, options, core, enabled,
                       stoppedWorker, subscriptions, worker, liveWorkers,
                       listening, sweepInterval, timers, pending, clock>>

\* time passes
Tick ==
    /\ clock < MaxTime
    /\ clock' = clock + 1
    /\ NoOutput
    /\ UNCHANGED <<workerVars, rpcVars, unprocessed, options, lifecycle, markers>>

(***************************************************************************)
(* _onEngineUpdate: called for each engine:update event while subscribed.  *)
(***************************************************************************)
FrameIds == {1, 2}
\* a frame: its id, whether it carries an ImageBitmap, its dimensions
Frames == {[id |-> i, imageBitmap |-> b, width |-> 100, height |-> 50]
            : i \in FrameIds, b \in BOOLEAN}

ProcessFrameMsg(w, payload, threw) ==
    [to |-> w, type |-> "processFrame", payload |-> Some(payload), threw |-> threw]

\* a faulty variant: one postMessage call, outside any try/catch
EngineUpdateOutcomeUncaught(frame, w, e, throws1, throws2) ==
    IF frame = None \/ w = 0 THEN [posted |-> <<>>, thrown |-> FALSE]
    ELSE [posted |-> <<ProcessFrameMsg(w, [frameId |-> frame[1].id], throws1)>>,
          thrown |-> throws1]

\* a faulty variant: a frame that is accepted is posted twice
EngineUpdateOutcomePostsTwice(frame, w, e, throws1, throws2) ==
    IF frame = None \/ w = 0 THEN [posted |-> <<>>, thrown |-> FALSE]
    ELSE LET f == frame[1]
             first == [frameId |-> f.id, imageBitmap |-> TRUE,
                       width |-> f.width, height |-> f.height]
         IN  [posted |-> <<ProcessFrameMsg(w, first, throws1),
                            ProcessFrameMsg(w, first, throws1)>>,
              thrown |-> FALSE]

\* a faulty variant: the fallback posts the first message once more
EngineUpdateOutcomeRetrySame(frame, w, e, throws1, throws2) ==
    IF frame = None \/ w = 0 THEN [posted |-> <<>>, thrown |-> FALSE]
    ELSE LET f == frame[1]
             first == [frameId |-> f.id, imageBitmap |-> TRUE,
                       width |-> f.width, height |-> f.height]
         IN  IF throws1
             THEN [posted |-> <<ProcessFrameMsg(w, first, TRUE),
                                ProcessFrameMsg(w, first, throws2)>>,
                   thrown |-> FALSE]
             ELSE [posted |-> <<ProcessFrameMsg(w, first, FALSE)>>,
                   thrown |-> FALSE]

\* The postMessage calls _onEngineUpdate makes for a frame, and whether it
\* throws.  frame: None or Some(frame); w: this._worker; throws1, throws2:
\* whether the first and the second postMessage call throw.
EngineUpdateOutcome(frame, w, e, throws1, throws2) ==
    IF frame = None THEN [posted |-> <<>>, thrown |-> FALSE]
    ELSE
        LET f == frame[1]
            withBitmap == [frameId |-> f.id, imageBitmap |-> TRUE,
                           width |-> f.width, height |-> f.height]
            metadata == [frameId |-> f.id, width |-> f.width, height |-> f.height]
            idOnly == [frameId |-> f.id]
            first == IF e = "browser" THEN withBitmap ELSE metadata
        IN  IF w # 0 /\ f.imageBitmap
            THEN IF ~throws1
                 THEN [posted |-> <<ProcessFrameMsg(w, first, FALSE)>>,
                       thrown |-> FALSE]
                 ELSE [posted |-> <<ProcessFrameMsg(w, first, TRUE),
                                    ProcessFrameMsg(w, idOnly, throws2)>>,
                       thrown |-> FALSE]
            ELSE IF w # 0
            THEN [posted |-> <<ProcessFrameMsg(w, idOnly, throws1)>>,
                  thrown |-> FALSE]
            ELSE [posted |-> <<>>, thrown |-> FALSE]

\* the postMessage calls among ps that did not throw
Delivered(ps) == Cardinality({i \in 1..Len(ps) : ~ps[i].threw})

OnEngineUpdate(frame, throws1, throws2) ==
    LET r == EngineUpdateOutcome(frame, worker, env, throws1, throws2) IN
    /\ subscriptions > 0
    /\ posted' = r.posted
    /\ unprocessed' = Min(unprocessed + Delivered(r.posted), MaxUnprocessed)
    /\ thrown' = r.thrown
    /\ received' = None
    /\ Emit(<<>>)
    /\ terminated' = <<>>
    /\ UNCHANGED <<workerVars, rpcVars, options, lifecycle, markers, clock>>

\* A worker finishes with a processFrame message (or was terminated with the
\* message unhandled); the control side is not told.
FrameDone ==
    /\ unprocessed > 0
    /\ unprocessed' \in {unprocessed - 1} \cup
                        (IF unprocessed = MaxUnprocessed THEN {unprocessed} ELSE {})
    /\ NoOutput
    /\ UNCHANGED <<workerVars, rpcVars, options, lifecycle, markers, clock>>

EngineUpdate ==
    \E frame \in {None} \cup {Some(f) : f \in Frames} :
        \E throws1, throws2 \in BOOLEAN : OnEngineUpdate(frame, throws1, throws2)

(***************************************************************************)
(* Marker tracking.  The host uses the plugin as documented: it awaits     *)
(* each enable() before it calls enable() or disable() again.  Worker      *)
(* messages arrive, time passes, the sweep timer fires.                    *)
(***************************************************************************)
AwaitedEnable == PendingCount = 0 /\ EnableCall

AwaitedDisable == PendingCount = 0 /\ DisableCall

Next ==
    \/ InitCall
    \/ AwaitedEnable
    \/ ResumeImportWt
    \/ ResumeImportUrl
    \/ ResumeStarted
    \/ AwaitedDisable
    \/ OnWorkerMessage
    \/ SweepMarkers
    \/ Tick

Spec == Init /\ [][Next]_vars

(***************************************************************************)
(* Marker tracking with progress.  The event loop runs every callback that *)
(* is due: a resolved import or _startWorker resumes the enable() that     *)
(* awaits it, a running interval timer fires, time passes.  Batches hold   *)
(* at most one detection: a longer batch leaves the records that its       *)
(* detections leave one batch at a time.                                   *)
(***************************************************************************)
ShortDetectionMsgs == {msg \in DetectionMsgs : Len(DetectionsOf(msg)) <= 1}

OnShortWorkerMessage ==
    \/ OnReady
    \/ \E msg \in ShortDetectionMsgs : OnDetectionResult(msg)
    \/ \E msg \in ErrorMsgs : OnError(msg)
    \/ \E msg \in OtherMsgs : OnOther(msg)

NextLive ==
    \/ InitCall
    \/ AwaitedEnable
    \/ ResumeImportWt
    \/ ResumeImportUrl
    \/ ResumeStarted
    \/ AwaitedDisable
    \/ OnShortWorkerMessage
    \/ SweepMarkers
    \/ Tick

LiveSpec ==
    /\ Init
    /\ [][NextLive]_vars
    /\ WF_vars(ResumeImportWt)
    /\ WF_vars(ResumeImportUrl)
    /\ WF_vars(ResumeStarted)
    /\ WF_vars(SweepMarkers)
    /\ WF_vars(Tick)

(***************************************************************************)
(* Frame submission.  The host awaits its lifecycle calls; worker messages *)
(* arrive and the engine publishes frames, within one time unit.           *)
(***************************************************************************)
NextFrame ==
    \/ InitCall
    \/ AwaitedEnable
    \/ ResumeImportWt
    \/ ResumeImportUrl
    \/ ResumeStarted
    \/ AwaitedDisable
    \/ OnWorkerMessage
    \/ EngineUpdate
    \/ FrameDone

FrameSpec == Init /\ [][NextFrame]_vars

(***************************************************************************)
(* The control side's lifecycle when the host does not await: enable() and *)
(* disable() are called at any time, also while an enable() is suspended.  *)
(***************************************************************************)
NextRace ==
    \/ InitCall
    \/ EnableCall
    \/ ResumeImportWt
    \/ ResumeImportUrl
    \/ ResumeStarted
    \/ DisableCall
    \/ SweepMarkers
    \/ EngineUpdate

RaceSpec == Init /\ [][NextRace]_vars

(***************************************************************************)
(* The same lifecycle with the workers' messages: a worker whose message   *)
(* handler is attached delivers ready, detectionResult and error messages. *)
(***************************************************************************)
NextUnawaited ==
    \/ InitCall
    \/ EnableCall
    \/ ResumeImportWt
    \/ ResumeImportUrl
    \/ ResumeStarted
    \/ DisableCall
    \/ OnWorkerMessage

UnawaitedSpec == Init /\ [][NextUnawaited]_vars

(***************************************************************************)
(* The same lifecycle with marker tracking: the workers' messages arrive,  *)
(* every running interval timer calls _sweepMarkers, time passes.  The     *)
(* continuation of `await this._startWorker()` is a microtask: it runs     *)
(* before the next message or timer task.                                  *)
(***************************************************************************)
NextUnawaitedTracking ==
    \/ InitCall
    \/ EnableCall
    \/ ResumeImportWt
    \/ ResumeImportUrl
    \/ ResumeStarted
    \/ DisableCall
    \/ (pending["started"] = 0 /\ OnWorkerMessage)
    \/ (pending["started"] = 0 /\ SweepMarkers)
    \/ (pending["started"] = 0 /\ Tick)

UnawaitedTrackingSpec == Init /\ [][NextUnawaitedTracking]_vars

(***************************************************************************)
(* The plugin's loadMarker calls: calls are made, results arrive in any    *)
(* order or never, timers run out.  A timer that is due fires, and time    *)
(* goes on.                                                                *)
(***************************************************************************)
NextRpc ==
    \/ InitCall
    \/ AwaitedEnable
    \/ ResumeImportWt
    \/ ResumeImportUrl
    \/ ResumeStarted
    \/ AwaitedDisable
    \/ LoadMarkerCall
    \/ LoadMarkerResultArrives
    \/ LoadMarkerTimesOut
    \/ RpcTick

RpcSpec ==
    /\ Init
    /\ [][NextRpc]_vars
    /\ WF_vars(LoadMarkerTimesOut)
    /\ WF_vars(RpcTick)

(***************************************************************************)
(* The plugin with any filter options: raw getMarker events arrive.        *)
(***************************************************************************)
NextForward ==
    \/ InitCall
    \/ AwaitedEnable
    \/ ResumeImportWt
    \/ ResumeImportUrl
    \/ ResumeStarted
    \/ AwaitedDisable
    \/ GetMarkerArrives

ForwardSpec == InitForward /\ [][NextForward]_vars

(***************************************************************************)
(* The worker: messages arrive from the control side, the init attempt and *)
(* the engine's loads settle, time passes.                                 *)
(***************************************************************************)
NextWorker ==
    \/ RecvInit
    \/ LoadMarkerRequest
    \/ ProcessFrameRequestNoFault
    \/ InitAttemptEndsNoFault
    \/ EngineLoadEnds
    \/ WorkerTick

InitWorker == Init /\ env = "browser" /\ workerEnabled

WorkerSpec == InitWorker /\ [][NextWorker]_vars

(***************************************************************************)
(* The worker and its frames: processFrame messages arrive, compositing    *)
(* and the engine may fail, the init attempt settles, time passes.         *)
(***************************************************************************)
NextBitmap ==
    \/ RecvInit
    \/ ProcessFrameRequest
    \/ InitAttemptEnds
    \/ WorkerTick

BitmapSpec == InitWorker /\ [][NextBitmap]_vars

(***************************************************************************)
(* The worker with a loadMarker request and frames: compositing and the    *)
(* engine's process may fail, the init attempt and the engine's load       *)
(* settle, time passes.                                                    *)
(***************************************************************************)
NextFallback ==
    \/ FirstLoadMarkerRequest
    \/ EngineLoadEnds
    \/ ProcessFrameRequest
    \/ InitAttemptEnds
    \/ WorkerTick

FallbackSpec == InitWorker /\ [][NextFallback]_vars

(***************************************************************************)
(* The worker and the engine's detections: frames arrive, the init attempt *)
(* settles, the engine emits getMarker events, time passes.                *)
(***************************************************************************)
NextDetect ==
    \/ ProcessFrameRequestNoFault
    \/ InitAttemptEndsNoFault
    \/ EngineEmitsGetMarker
    \/ WorkerTick

DetectSpec == InitWorker /\ [][NextDetect]_vars

(***************************************************************************)
(* The worker's init attempts over a long time: frames arrive, attempts    *)
(* settle, backoff windows go by.                                          *)
(***************************************************************************)
NextBackoff ==
    \/ RecvInit
    \/ ProcessFrameRequestNoFault
    \/ InitAttemptEndsNoFault
    \/ BackoffElapses

BackoffSpec == InitWorker /\ [][NextBackoff]_vars

(***************************************************************************)
(* The worker's loadMarker requests: they arrive, time passes, and the     *)
(* init attempt and the engine's loads, once started, settle.              *)
(***************************************************************************)
NextAnswer ==
    \/ LoadMarkerRequest
    \/ InitAttemptEndsNoFault
    \/ EngineLoadEnds
    \/ WorkerTick

AnswerSpec ==
    /\ InitWorker
    /\ [][NextAnswer]_vars
    /\ WF_vars(InitAttemptEndsNoFault)
    /\ WF_vars(EngineLoadEnds)

(***************************************************************************)
(* The worker's retries: loadMarker requests and frames arrive, attempts   *)
(* settle, backoff windows go by.  Time goes on and a promise in flight    *)
(* settles; frames with a bitmap keep arriving and the engine's init       *)
(* succeeds at some attempt if it is tried again and again.                *)
(***************************************************************************)
BitmapFrameArrives == RecvProcessFrame(TRUE, "none")

InitSucceeds == InitSettles(TRUE, [i \in 1..frameWaiters |-> "none"])

NextRetry ==
    \/ FirstLoadMarkerRequest
    \/ EngineLoadEnds
    \/ BitmapFrameArrives
    \/ InitAttemptEndsNoFault
    \/ BackoffElapses

RetrySpec ==
    /\ InitWorker
    /\ [][NextRetry]_vars
    /\ WF_vars(BackoffElapses)
    /\ WF_vars(BitmapFrameArrives)
    /\ WF_vars(InitAttemptEndsNoFault)
    /\ SF_vars(InitSucceeds)

(***************************************************************************)
(* Properties of marker tracking.                                          *)
(***************************************************************************)
MarkerEventTypes == {"ar:markerFound", "ar:markerUpdated", "ar:markerLost"}

\* the worker message a step handled: a set of none or one
Handled(r) == {r[i] : i \in 1..Len(r)}

\* how many events of a type a step emitted for an id
EventCount(evs, type, id) ==
    Cardinality({i \in 1..Len(evs) : evs[i].type = type /\ evs[i].id = id})

\* how many detections of a batch carry an id
Occurrences(dets, id) == Cardinality({i \in 1..Len(dets) : dets[i].id = id})

\* the marker events of evs continue the per-id pattern from history rep
RECURSIVE FollowsPattern(_, _)
FollowsPattern(rep, evs) ==
    IF evs = <<>> THEN TRUE
    ELSE LET e == Head(evs) IN
         IF e.type \notin MarkerEventTypes THEN FollowsPattern(rep, Tail(evs))
         ELSE /\ IF e.type = "ar:markerFound" THEN e.id \notin rep
                 ELSE e.id \in rep
              /\ FollowsPattern(AfterEvents(rep, <<e>>), Tail(evs))

\* C1: for each marker id the emitted events follow
\* (markerFound, markerUpdated*, markerLost)*: a markerFound only when the
\* id's latest event is none or markerLost, a markerUpdated or markerLost only
\* when its latest event is markerFound or markerUpdated.
C1_EventPattern == [][FollowsPattern(reported, emitted')]_vars

\* a sweep has just reported one marker lost while the other is still tracked
C1_Witness ==
    /\ \E i \in 1..Len(emitted) :
          emitted[i].type = "ar:markerLost" /\ emitted[i].id \notin reported
    /\ reported # {}

\* C2: a batch that holds an id once, when no record exists for it, emits
\* exactly one markerFound and no markerUpdated for the id, the event carries a
\* 16-entry poseMatrix equal to the detection's matrix, and a record is
\* created with visible = true and lastSeen = now.
C2_FirstDetectionFound ==
    [][\A msg \in Handled(received') : \A id \in MarkerIds :
        (/\ msg.type = "detectionResult"
         /\ Occurrences(DetectionsOf(msg), id) = 1
         /\ ~HasMarker(markers, id))
        => LET dets == DetectionsOf(msg)
               d == dets[CHOOSE i \in 1..Len(dets) : dets[i].id = id]
           IN  /\ EventCount(emitted', "ar:markerFound", id) = 1
               /\ EventCount(emitted', "ar:markerUpdated", id) = 0
               /\ \A i \in 1..Len(emitted') :
                     emitted'[i].id = id
                     => /\ Len(emitted'[i].poseMatrix) = 16
                        /\ d.poseMatrix = Some(emitted'[i].poseMatrix)
               /\ HasMarker(markers', id)
               /\ GetMarker(markers', id).visible
               /\ GetMarker(markers', id).lastSeen = clock]_vars

\* C3 as stated: a batch that holds an id whose record is visible emits
\* exactly one markerUpdated and no markerFound for it, sets lastSeen to now
\* and leaves exactly one record for the id.
C3_SeenAgainUpdatedOnce ==
    [][\A msg \in Handled(received') : \A id \in MarkerIds :
        (/\ msg.type = "detectionResult"
         /\ Occurrences(DetectionsOf(msg), id) >= 1
         /\ HasMarker(markers, id)
         /\ GetMarker(markers, id).visible)
        => /\ EventCount(emitted', "ar:markerUpdated", id) = 1
           /\ EventCount(emitted', "ar:markerFound", id) = 0
           /\ GetMarker(markers', id).lastSeen = clock
           /\ Cardinality({i \in 1..Len(markers') : markers'[i].id = id}) = 1]_vars

\* C3: a batch that holds an id whose record is visible emits one
\* markerUpdated for each detection of the id in the batch (exactly one when
\* the id occurs once) and no markerFound for it, sets lastSeen to now and
\* leaves exactly one record for the id.
C3_SeenAgainUpdatedPerDetection ==
    [][\A msg \in Handled(received') : \A id \in MarkerIds :
        (/\ msg.type = "detectionResult"
         /\ Occurrences(DetectionsOf(msg), id) >= 1
         /\ HasMarker(markers, id)
         /\ GetMarker(markers, id).visible)
        => /\ EventCount(emitted', "ar:markerUpdated", id)
                = Occurrences(DetectionsOf(msg), id)
           /\ EventCount(emitted', "ar:markerFound", id) = 0
           /\ GetMarker(markers', id).lastSeen = clock
           /\ Cardinality({i \in 1..Len(markers') : markers'[i].id = id}) = 1]_vars

\* a tracked marker has just been seen again, later than it was found
C3_Witness ==
    /\ clock > 0
    /\ \E id \in MarkerIds :
          /\ EventCount(emitted, "ar:markerUpdated", id) = 1
          /\ EventCount(emitted, "ar:markerFound", id) = 0
          /\ HasMarker(markers, id)
          /\ GetMarker(markers, id).lastSeen = clock

\* C4: a sweep at time now removes exactly the records with
\* now - lastSeen > lostThreshold * frameDurationMs and emits exactly one
\* markerLost for each of them; a record with now - lastSeen at most the
\* threshold (equal included) is left as it is with no event, and an id that
\* has no record gets no markerLost.
C4_SweepRemovesStale ==
    [][SweepMarkers
       => LET thr == lostThreshold * frameDurationMs
              Stale == {id \in MarkerKeys(markers) :
                          clock - GetMarker(markers, id).lastSeen > thr}
          IN  /\ MarkerKeys(markers') = MarkerKeys(markers) \ Stale
              /\ \A id \in MarkerKeys(markers') :
                    GetMarker(markers', id) = GetMarker(markers, id)
              /\ \A id \in MarkerIds :
                    EventCount(emitted', "ar:markerLost", id)
                        = IF id \in Stale THEN 1 ELSE 0
              /\ Len(emitted') = Cardinality(Stale)]_vars

\* a sweep has just removed one marker and kept one whose age equals the
\* threshold
C4_Witness ==
    /\ received = None
    /\ \E id \in MarkerIds :
          /\ ~HasMarker(markers, id)
          /\ EventCount(emitted, "ar:markerLost", id) = 1
    /\ \E id \in MarkerKeys(markers) :
          clock - GetMarker(markers, id).lastSeen = lostThreshold * frameDurationMs

\* C5: a detection batch leaves the record of every id that is absent from
\* it unchanged and emits no event for such an id; a detectionResult without
\* payload, without a detections list or with an empty one changes no record
\* and emits nothing.
C5_AbsentIdsUntouched ==
    [][\A msg \in Handled(received') :
        msg.type = "detectionResult"
        => /\ \A id \in MarkerIds :
                Occurrences(DetectionsOf(msg), id) = 0
                => /\ HasMarker(markers', id) = HasMarker(markers, id)
                   /\ HasMarker(markers, id)
                        => GetMarker(markers', id) = GetMarker(markers, id)
                   /\ \A i \in 1..Len(emitted') : emitted'[i].id # id
           /\ (\/ msg.payload = None
               \/ msg.payload[1].detections = None
               \/ msg.payload[1].detections = Some(<<>>))
              => markers' = markers /\ emitted' = <<>>]_vars

\* a batch without one of the tracked markers has just been handled, later
\* than that marker was last seen
C5_Witness ==
    \E msg \in Handled(received) :
        /\ msg.type = "detectionResult"
        /\ emitted # <<>>
        /\ \E id \in MarkerKeys(markers) :
              /\ Occurrences(DetectionsOf(msg), id) = 0
              /\ GetMarker(markers, id).lastSeen < clock

\* the plugin is enabled and holds a record of id, last seen early enough
\* for the clock of the model to pass the threshold
Tracked(id) ==
    /\ enabled
    /\ HasMarker(markers, id)
    /\ GetMarker(markers, id).lastSeen + lostThreshold * frameDurationMs < MaxTime

\* the last step handled a batch that holds id
DetectedNow(id) ==
    \E msg \in Handled(received) :
        msg.type = "detectionResult" /\ Occurrences(DetectionsOf(msg), id) >= 1

\* the record of id is gone and the last step emitted one markerLost for it
JustLost(id) ==
    ~HasMarker(markers, id) /\ EventCount(emitted, "ar:markerLost", id) = 1

AnsweredNow(k) ==
    {r \in RequestIds : /\ req[r].stage # "answered"
                        /\ req'[r].stage = "answered"
                        /\ req'[r].key = Some(k)}

NotInitialized(answer) ==
    ~answer[1].ok /\ answer[1].error = "ARToolKit not initialized"

\* both carry the same markerId, or both the same error
SameAnswer(a, b) ==
    /\ a[1].ok = b[1].ok
    /\ IF a[1].ok THEN a[1].markerId = b[1].markerId ELSE a[1].error = b[1].error

\* C7 as stated: the loadMarker requests for one patternUrl that are in
\* flight together (the url not loaded when the first arrived) cause exactly
\* one load call on the engine and are all answered with the same markerId
\* or the same error.
C7_ConcurrentLoadsOneCall ==
    [][\A k \in PatternUrls :
        (AnsweredNow(k) # {} /\ ~group'[k].cached)
        => /\ group'[k].calls = 1
           /\ InFlight(req', k) = {}
           /\ \A r1, r2 \in AnsweredNow(k) :
                 SameAnswer(req'[r1].answer, req'[r2].answer)]_vars

\* C7: the loadMarker requests for one patternUrl that are in flight
\* together (the url not loaded when the first arrived) cause at most one
\* load call on the engine: exactly one when initialisation has succeeded,
\* none when it fails or is backing off, and then all are answered
\* 'ARToolKit not initialized'.  All are answered in the same step with the
\* same markerId or the same error.
C7_ConcurrentLoadsAtMostOneCall ==
    [][\A k \in PatternUrls :
        (AnsweredNow(k) # {} /\ ~group'[k].cached)
        => /\ group'[k].calls
                = IF \E r \in AnsweredNow(k) : NotInitialized(req'[r].answer)
                  THEN 0 ELSE 1
           /\ InFlight(req', k) = {}
           /\ \A r1, r2 \in AnsweredNow(k) :
                 SameAnswer(req'[r1].answer, req'[r2].answer)]_vars

\* every request has just been answered with one markerId, after one load call
C7_Witness ==
    /\ Len(sent) = MaxRequests
    /\ \A i \in 1..Len(sent) :
          /\ sent[i].type = "loadMarkerResult"
          /\ sent[i].payload.ok
          /\ sent[i].payload.markerId = 1
    /\ calls = 1

(***************************************************************************)
(* Properties of the lifecycle and of frame submission.                    *)
(***************************************************************************)
\* C8: once disable() has returned and no enable() is pending, the plugin
\* holds no worker and no running sweep timer, whatever the interleaving of
\* enable() and disable() calls.
C8_DisabledHoldsNothing ==
    (~enabled /\ PendingCount = 0)
    => (worker = 0 /\ liveWorkers = {} /\ timers = {})

\* C9: awaited enable() / disable() calls: enable() on an enabled plugin and
\* disable() on a disabled one change nothing; there is never more than one
\* subscription, one worker, one sweep timer; enabled is true after an
\* enable() that returns and false after disable(); a disable() that finds a
\* worker removes its message handler and terminates it exactly once.
C9_LifecycleIdempotent ==
    /\ [](/\ subscriptions <= 1
          /\ Cardinality(liveWorkers) <= 1
          /\ Cardinality(timers) <= 1
          /\ PendingCount > 0 => enabled)
    /\ [][/\ (AwaitedEnable /\ enabled)
                => UNCHANGED lifecycle /\ posted' = <<>>
          /\ (AwaitedDisable /\ ~enabled)
                => UNCHANGED lifecycle /\ terminated' = <<>>
          /\ (AwaitedEnable /\ ~thrown') => enabled'
          /\ AwaitedDisable => ~enabled'
          /\ (AwaitedDisable /\ enabled /\ worker # 0)
                => /\ terminated' = <<worker>>
                   /\ worker \notin listening'
                   /\ worker \notin liveWorkers'
                   /\ worker' = 0]_vars

\* disable() has just terminated the worker of an enabled plugin
C9_Witness ==
    /\ ~enabled
    /\ terminated # <<>>
    /\ worker = 0
    /\ timers = {}
    /\ subscriptions = 0

\* C10: _onEngineUpdate never throws; when the first postMessage for a frame
\* with a bitmap throws, exactly one more postMessage is made, without the
\* bitmap, and a throw of that one is swallowed; the lifecycle state and the
\* marker records are unchanged.
C10_FrameSubmissionNeverThrows ==
    [][\A frame \in {None} \cup {Some(f) : f \in Frames} :
        \A throws1, throws2 \in BOOLEAN :
            OnEngineUpdate(frame, throws1, throws2)
            => /\ thrown' = FALSE
               /\ UNCHANGED <<lifecycle, markers>>
               /\ (frame # None /\ worker # 0 /\ throws1)
                    => IF frame[1].imageBitmap
                       THEN /\ Len(posted') = 2
                            /\ posted'[1].threw
                            /\ "imageBitmap" \notin DOMAIN posted'[2].payload[1]
                            /\ posted'[2].threw = throws2
                       ELSE Len(posted') = 1
               /\ (frame # None /\ worker # 0 /\ ~throws1)
                    => Len(posted') = 1]_vars

\* both postMessage calls for a frame have just thrown, and nothing was thrown
\* to the engine
C10_Witness ==
    /\ Len(posted) = 2
    /\ posted[1].threw
    /\ posted[2].threw
    /\ ~thrown
    /\ enabled
    /\ markers # <<>>

\* the frames with a bitmap
BitmapFrames == {Some(f) : f \in {g \in Frames : g.imageBitmap}}

\* C11 as stated: the processFrame message posted after the first postMessage
\* for a frame with a bitmap threw carries the frame's id, width and height
\* and no bitmap.
C11_FallbackCarriesDimensions ==
    [][\A frame \in BitmapFrames : \A throws2 \in BOOLEAN :
        (OnEngineUpdate(frame, TRUE, throws2) /\ worker # 0)
        => /\ Len(posted') = 2
           /\ posted'[2].payload[1]
                = [frameId |-> frame[1].id, width |-> frame[1].width,
                   height |-> frame[1].height]]_vars

\* C11: the processFrame message posted after the first postMessage for a
\* frame with a bitmap threw carries the frame's id and nothing else: no
\* width, no height, no bitmap.
C11_FallbackCarriesFrameIdOnly ==
    [][\A frame \in BitmapFrames : \A throws2 \in BOOLEAN :
        (OnEngineUpdate(frame, TRUE, throws2) /\ worker # 0)
        => /\ Len(posted') = 2
           /\ posted'[2].type = "processFrame"
           /\ posted'[2].to = worker
           /\ posted'[2].payload[1] = [frameId |-> frame[1].id]]_vars

\* the first postMessage for a frame has just thrown and the fallback got
\* through
C11_Witness ==
    /\ Len(posted) = 2
    /\ posted[1].threw
    /\ ~posted[2].threw
    /\ "imageBitmap" \in DOMAIN posted[1].payload[1]

----------------------------------------------------------------------------
\* C12: for each engine:update frame that carries a bitmap, when a worker
\* exists and postMessage does not throw, exactly one processFrame message is
\* posted to that worker and it carries the frame's id, width and height; with
\* no worker, or with an empty frame, nothing is posted.  Submission is
\* fire-and-forget: the handler suspends on nothing, and it can run for the
\* next frame however many posted frames are still unprocessed.
C12_OneMessagePerFrame ==
    /\ [][\A frame \in BitmapFrames \cup {None} : \A throws1, throws2 \in BOOLEAN :
            OnEngineUpdate(frame, throws1, throws2)
            => /\ (frame # None /\ worker # 0 /\ ~throws1)
                  => /\ Len(posted') = 1
                     /\ posted'[1].type = "processFrame"
                     /\ posted'[1].to = worker
                     /\ ~posted'[1].threw
                     /\ posted'[1].payload[1].frameId = frame[1].id
                     /\ posted'[1].payload[1].width = frame[1].width
                     /\ posted'[1].payload[1].height = frame[1].height
               /\ (frame = None \/ worker = 0) => posted' = <<>>
               /\ pending' = pending]_vars
    /\ [](subscriptions > 0 => ENABLED EngineUpdate)

\* a frame with a bitmap is posted while earlier frames are still unprocessed
C12_Witness ==
    /\ unprocessed = MaxUnprocessed
    /\ Len(posted) = 1
    /\ ~posted[1].threw
    /\ posted[1].type = "processFrame"
    /\ "width" \in DOMAIN posted[1].payload[1]

----------------------------------------------------------------------------
\* the positions in the calls cs of a handler at which op was called
CallsOf(cs, ops) == {j \in 1..Len(cs) : cs[j].op \in ops}

\* the handler drew the bitmap into the canvas
Composited(cs) == \E j \in 1..Len(cs) : cs[j].op = "drawImage" /\ ~cs[j].threw

\* allocating the canvas or drawing into it raised
CompositingFailed(cs) ==
    \E j \in CallsOf(cs, {"new OffscreenCanvas", "getContext", "clearRect",
                           "drawImage"}) : cs[j].threw

EngineCalls == {"process(canvas)", "process(imgData)"}

\* C13: for every processFrame message whose bitmap is composited, the
\* worker closes the bitmap exactly once, and before any call of the engine's
\* process, also when process raises on the canvas, on the image data or on
\* both; no handler closes a bitmap twice.
C13_ClosedOnceBeforeEngine ==
    \A i \in 1..Len(handled) :
        LET cs == handled[i].calls IN
        /\ Cardinality(CallsOf(cs, {"close"})) <= 1
        /\ Composited(cs)
           => /\ Cardinality(CallsOf(cs, {"close"})) = 1
              /\ \A j \in CallsOf(cs, EngineCalls) :
                    \E k \in CallsOf(cs, {"close"}) : k < j

\* a composited frame for which process raised on both paths
C13_Witness ==
    \E i \in 1..Len(handled) :
        LET cs == handled[i].calls IN
        /\ Composited(cs)
        /\ Cardinality({j \in CallsOf(cs, EngineCalls) : cs[j].threw}) = 2
        /\ Cardinality(CallsOf(cs, {"close"})) = 1

\* C14: the transferred bitmap is closed exactly once also when allocating
\* the canvas or drawing the bitmap into it raises.
C14_ClosedOnceWhenCompositingFails ==
    \A i \in 1..Len(handled) :
        CompositingFailed(handled[i].calls)
        => Cardinality(CallsOf(handled[i].calls, {"close"})) = 1

----------------------------------------------------------------------------
\* now < initFailedUntil
InBackoff == WorkerNow < initFailedUntil

\* C15: inside the backoff window no processFrame and no loadMarker message
\* starts an init attempt or causes an error message: a frame makes the worker
\* send nothing, and a loadMarker request is answered in the same step with a
\* failed loadMarkerResult.
C15_BackoffStartsNoAttempt ==
    [][InBackoff =>
        /\ ProcessFrameRequestNoFault
           => /\ ~initInProgress'
              /\ frameWaiters' = 0
              /\ sent' = <<>>
        /\ \A r \in RequestIds : \A k \in PatternUrls :
              RecvLoadMarker(r, Some(k))
              => /\ ~initInProgress'
                 /\ initWaiters' = <<>>
                 /\ sent' = <<LoadMarkerFailed(r, "ARToolKit not initialized")>>
                 /\ req'[r].stage = "answered"
                 /\ req'[r].answer = Some([ok |-> FALSE,
                                           error |-> "ARToolKit not initialized",
                                           requestId |-> r])]_vars

\* a loadMarker request was answered inside the backoff window
C15_Witness ==
    /\ InBackoff
    /\ ~initInProgress
    /\ \E r \in RequestIds :
          sent = <<LoadMarkerFailed(r, "ARToolKit not initialized")>>

----------------------------------------------------------------------------
IsPending(id) == pendingRequests[id] # None

HasSettled(id) == pendingRequests[id] = None /\ settled[id] # None

TimedOut == Rejected("loadMarker timed out")

\* C16: a loadMarker call of the plugin that gets no loadMarkerResult within
\* 10 s is rejected with a 'timed out' error and its entry leaves the pending
\* map: no entry is pending for longer than 10 s, an entry that goes without a
\* result goes by the timeout, and every call settles.
C16_LoadMarkerTimesOut ==
    /\ [](\A id \in CallIds :
            IsPending(id)
            => RpcNow - pendingRequests[id][1].createdAt <= LoadMarkerTimeoutMs)
    /\ [][\A id \in CallIds :
            (IsPending(id) /\ ~IsPending(id)' /\ received' = None)
            => /\ settled'[id] = TimedOut
               /\ RpcNow - pendingRequests[id][1].createdAt = LoadMarkerTimeoutMs]_vars
    /\ \A id \in CallIds : IsPending(id) ~> HasSettled(id)

\* a call was rejected by its timeout
C16_Witness ==
    \E id \in CallIds : ~IsPending(id) /\ settled[id] = TimedOut

----------------------------------------------------------------------------
\* the requestIds that loadMarker calls have used so far
Issued == {id \in CallIds : IsPending(id) \/ settled[id] # None}

\* C17: a loadMarker call of the plugin posts exactly one loadMarker message,
\* with the call's patternUrl, size and requestId; requestIds are given out
\* from 0 upwards, so the first call uses requestId 0; the promise of a
\* pending call resolves with { markerId, size } of the loadMarkerResult that
\* has ok = true and the call's requestId, and no other call settles.
C17_LoadMarkerResolves ==
    /\ [](Issued = 0..(nextRequestId - 1))
    /\ [][/\ \A k \in PatternUrls : \A sz \in MarkerSizes :
              LoadMarker(k, sz)
              => /\ posted' = <<LoadMarkerMsg(worker, k, sz, nextRequestId)>>
                 /\ Issued' = Issued \cup {nextRequestId}
                 /\ (Issued = {} => posted'[1].payload[1].requestId = 0)
          /\ \A msg \in Handled(received') :
              (msg.type = "loadMarkerResult" /\ msg.payload[1].ok
                    /\ IsPending(msg.payload[1].requestId))
              => /\ settled' = [settled EXCEPT ![msg.payload[1].requestId] =
                        Resolved([markerId |-> msg.payload[1].markerId,
                                  size |-> msg.payload[1].size])]
                 /\ ~IsPending(msg.payload[1].requestId)']_vars

\* the first call resolved with the marker id and size of its result
C17_Witness ==
    /\ received # None
    /\ received[1].type = "loadMarkerResult"
    /\ settled[0] = Resolved([markerId |-> 42, size |-> 1])

----------------------------------------------------------------------------
\* C18: a getMarker message is forwarded as ar:getMarker exactly when its type
\* is the pattern-marker type, its confidence is at least minConfidence, its
\* matrix has at least 16 entries and, when the set of tracked pattern ids is
\* not empty, its pattern id is in the set; the event carries the payload as
\* it came, a dropped message produces no event.  With the default minimum
\* (0.6) a confidence of 0.5 is dropped, 0.9 and exactly 0.6 are forwarded.
C18_GetMarkerFilter ==
    [][\A msg \in Handled(received') :
        msg.type = "getMarker"
        => LET p == msg.payload[1]
               entries == IF p.matrix = None THEN 0 ELSE Len(p.matrix[1])
               passes == /\ p.type = PATTERN_MARKER
                         /\ p.marker.cfPatt >= minConfidence
                         /\ entries >= 16
                         /\ (trackedPatternIds = {} \/ p.marker.idPatt \in trackedPatternIds)
           IN  /\ passes => emitted' = <<[type |-> "ar:getMarker", payload |-> Some(p)]>>
               /\ ~passes => emitted' = <<>>
               /\ (minConfidence = 60 /\ p.marker.cfPatt = 50) => emitted' = <<>>
               /\ (minConfidence = 60 /\ p.marker.cfPatt \in {60, 90}
                        /\ p.type = PATTERN_MARKER /\ entries = 16
                        /\ trackedPatternIds = {})
                  => Len(emitted') = 1]_vars

\* a raw event whose confidence equals the default minimum was forwarded
C18_Witness ==
    /\ minConfidence = DefaultMinConfidence
    /\ Len(emitted) = 1
    /\ emitted[1].type = "ar:getMarker"
    /\ emitted[1].payload[1].marker.cfPatt = 60
    /\ received = Some([type |-> "getMarker", payload |-> emitted[1].payload])

----------------------------------------------------------------------------
\* C19: each ready message makes the plugin emit exactly one ar:workerReady,
\* each error message exactly one ar:workerError that carries the message's
\* payload as it came; neither changes a marker record.  A message of a type
\* the handler does not know produces no event and changes nothing.
C19_ReadyAndErrorForwarded ==
    [][\A msg \in Handled(received') :
        /\ msg.type = "ready"
           => /\ emitted' = <<[type |-> "ar:workerReady"]>>
              /\ markers' = markers
        /\ msg.type = "error"
           => /\ emitted' = <<[type |-> "ar:workerError", payload |-> msg.payload]>>
              /\ markers' = markers
        /\ msg.type \notin {"ready", "error", "detectionResult"}
           => /\ emitted' = <<>>
              /\ UNCHANGED <<markers, reported, lifecycle, options, clock, rpcVars,
                             unprocessed>>]_vars

\* an error message was forwarded while a marker is tracked
C19_Witness ==
    /\ markers # <<>>
    /\ received # None
    /\ received[1].type = "error"
    /\ emitted = <<[type |-> "ar:workerError", payload |-> received[1].payload]>>

----------------------------------------------------------------------------
\* the loadMarker requests suspended in initArtoolkit
InitWaiterSet == {initWaiters[i] : i \in 1..Len(initWaiters)}

\* C20: at most one init attempt is in flight at any time.  A processFrame or
\* loadMarker message that arrives while an attempt is unsettled starts no
\* other attempt, and its handler gets the outcome of that attempt when it
\* settles: a loadMarker request goes on to load its pattern if the engine is
\* initialised and is answered 'ARToolKit not initialized' if not; a frame is
\* handed to the engine exactly if it is initialised.
C20_SingleInitAttempt ==
    /\ [](initAttempts <= 1 /\ (initInProgress <=> initAttempts = 1))
    /\ [][(initInProgress /\ initInProgress')
            => /\ initAttempts' = initAttempts
               /\ \A r \in InitWaiterSet : req'[r].stage = "awaitInit"
               /\ frameWaiters' >= frameWaiters]_vars
    /\ [][(initInProgress /\ ~initInProgress')
            => /\ \A r \in InitWaiterSet :
                    IF arControllerInitialized'
                    THEN \/ req'[r].stage = "awaitLoad"
                         \/ req'[r].stage = "answered" /\ req'[r].answer[1].ok
                    ELSE /\ req'[r].stage = "answered"
                         /\ NotInitialized(req'[r].answer)
               /\ Len(handled') = frameWaiters
               /\ \A i \in 1..Len(handled') :
                    /\ handled'[i].initialized = arControllerInitialized'
                    /\ (CallsOf(handled'[i].calls, EngineCalls) # {})
                       = arControllerInitialized']_vars

\* a loadMarker request and a frame waited for the same attempt, which failed
C20_Witness ==
    /\ ~initInProgress
    /\ ~arControllerInitialized
    /\ Len(handled) = 1
    /\ Len(sent) = 2
    /\ sent[1].type = "error"
    /\ sent[2].type = "loadMarkerResult"

----------------------------------------------------------------------------
\* the error messages among the messages ms
ErrorsIn(ms) == {i \in 1..Len(ms) : ms[i].type = "error"}

\* C21: every failed init attempt makes the worker send exactly one error
\* message, which states the failure and the retry delay, however many
\* loadMarker requests and frames waited for the attempt, and leaves the
\* engine uninitialised; no other step sends an error message, so the error
\* messages of a run are as many as its failed attempts.
C21_OneErrorPerFailedAttempt ==
    [][IF initInProgress /\ ~initInProgress' /\ ~arControllerInitialized'
       THEN /\ Cardinality(ErrorsIn(sent')) = 1
            /\ sent'[1] = InitFailedMsg(initFailedUntil' - WorkerNow)
            /\ initFailedUntil' > WorkerNow
       ELSE ErrorsIn(sent') = {}]_vars

\* an attempt failed on which two loadMarker requests and a frame waited
C21_Witness ==
    /\ ~arControllerInitialized
    /\ Len(sent) = 3
    /\ sent[1].type = "error"
    /\ sent[2].type = "loadMarkerResult"
    /\ sent[3].type = "loadMarkerResult"
    /\ Len(handled) >= 1

----------------------------------------------------------------------------
\* the retry delays as the schedule states them, in ms
StatedSchedule == <<1000, 2000, 4000, 8000, 16000, 30000, 30000>>

\* C22: the retry delays set after the 1st, 2nd, ..., 7th failed init attempt
\* in a row are 1 s, 2 s, 4 s, 8 s, 16 s, 30 s and 30 s.
C22_RetrySchedule ==
    \A i \in 1..Len(delays) : i <= 7 => delays[i] = StatedSchedule[i]

----------------------------------------------------------------------------
\* an init attempt fails in this step
AttemptFails == initInProgress /\ ~initInProgress' /\ ~arControllerInitialized'

----------------------------------------------------------------------------
\* C24: a successful init attempt sets initFailCount and initFailedUntil to 0,
\* attaches the getMarker listener and marks the engine initialised.  The
\* listener is attached at most once, the engine stays initialised, and every
\* later initArtoolkit call, from loadMarker (640 x 480) or from a frame (the
\* frame's dimensions), returns true at once and starts no attempt.
C24_SuccessfulInit ==
    /\ [](getMarkerListeners <= 1 /\ (getMarkerForwarderAttached <=> getMarkerListeners = 1))
    /\ [][(initInProgress /\ ~initInProgress' /\ arControllerInitialized')
            => /\ initFailCount' = 0
               /\ initFailedUntil' = 0
               /\ getMarkerForwarderAttached'
               /\ getMarkerListeners' = 1]_vars
    /\ [][arControllerInitialized
            => /\ arControllerInitialized'
               /\ ~initInProgress'
               /\ initAttempts' = 0
               /\ initWaiters' = <<>>
               /\ frameWaiters' = 0
               /\ \A r \in RequestIds : \A k \in PatternUrls :
                    RecvLoadMarker(r, Some(k))
                    => \/ req'[r].stage = "awaitLoad"
                       \/ req'[r].stage = "answered" /\ req'[r].answer[1].ok
               /\ RecvProcessFrame(TRUE, "none")
                  => /\ Len(handled') = 1
                     /\ handled'[1].initialized]_vars

\* the engine was initialised after an attempt had failed, and a frame was
\* handed to it since
C24_Witness ==
    /\ arControllerInitialized
    /\ initFailCount = 0
    /\ initFailedUntil = 0
    /\ getMarkerListeners = 1
    /\ \E r \in RequestIds :
          req[r].stage = "answered" /\ NotInitialized(req[r].answer)
    /\ Len(handled) = 1
    /\ handled[1].initialized

----------------------------------------------------------------------------

\* C25: a failed init is not final.  With the engine not initialised, no
\* attempt in flight and the backoff window over, a processFrame message with
\* a bitmap or a loadMarker message for a patternUrl starts an attempt; no
\* other step starts one.  However many attempts have failed, the worker
\* becomes initialised in the end, given that frames keep arriving and that the engine's
\* init succeeds at some attempt.
C25_FailureNotPermanent ==
    /\ [][(~arControllerInitialized /\ ~initInProgress /\ ~InBackoff)
            => /\ BitmapFrameArrives => (initInProgress' /\ initAttempts' = 1)
               /\ \A r \in RequestIds : \A k \in PatternUrls :
                    RecvLoadMarker(r, Some(k))
                    => (initInProgress' /\ initAttempts' = 1)]_vars
    /\ [][initAttempts' > initAttempts
            => (BitmapFrameArrives \/ LoadMarkerRequest)]_vars
    /\ (~arControllerInitialized) ~> arControllerInitialized

\* an attempt is in flight after three attempts in a row have failed
C25_Witness ==
    /\ Len(delays) = 3
    /\ initInProgress
    /\ ~InBackoff

----------------------------------------------------------------------------
\* C26: frames do not wait for initialisation.  A processFrame message with a
\* bitmap that arrives while an attempt is in flight is handled to its end in
\* the step that receives it: no handler is left suspended in initArtoolkit.
C26_FramesNotHeld ==
    [][(initInProgress /\ \E fault \in FrameFaults : RecvProcessFrame(TRUE, fault))
        => (frameWaiters' = frameWaiters /\ Len(handled') = 1)]_vars

----------------------------------------------------------------------------
\* the engine load calls for url k that have not settled
Outstanding(k) == {e \in engineLoads : e.key = k}

\* C27 as stated: over any sequence of loadMarker requests the engine's load
\* is called at most once for each patternUrl.
C27_AtMostOneLoadPerKey ==
    \A k \in PatternUrls : group[k].loads <= 1

\* C27: for each patternUrl at most one engine load call is outstanding at a
\* time, a new call is made only after every earlier one for the url has
\* failed, and none is made once the url is loaded.
C27_OneLoadUnlessFailed ==
    \A k \in PatternUrls :
        /\ Cardinality(Outstanding(k)) <= 1
        /\ group[k].loads <= group[k].failed + 1
        /\ loadedMarkers[k] # None
            => (Outstanding(k) = {} /\ group[k].loads = group[k].failed + 1)

\* a url is loaded by the second engine call made for it, the first failed
C27_Witness ==
    \E k \in PatternUrls :
        /\ group[k].loads = 2
        /\ group[k].failed = 1
        /\ loadedMarkers[k] # None

----------------------------------------------------------------------------
\* the step in which an engine load call for url k fails
LoadFails(k) == group'[k].failed > group[k].failed

\* the requests whose handler awaits the engine load of url k
AwaitingLoad(rq, k) ==
    {r \in RequestIds : rq[r].stage = "awaitLoad" /\ rq[r].key = Some(k)}

\* C28: when the engine rejects the load of a patternUrl, every request that
\* awaits that load is answered with the same error and no other message is
\* sent, the url is then neither in loadingMarkers nor in loadedMarkers, and
\* a later request for the url is not answered with that failure: it makes
\* a new engine load call.
C28_RejectedLoad ==
    /\ [][\A k \in PatternUrls :
            LoadFails(k)
            => /\ AwaitingLoad(req, k) # {}
               /\ AnsweredNow(k) = AwaitingLoad(req, k)
               /\ Len(sent') = Cardinality(AwaitingLoad(req, k))
               /\ \A r \in AnsweredNow(k) :
                     /\ ~req'[r].answer[1].ok
                     /\ \E i \in 1..Len(sent') : sent'[i].payload = req'[r].answer[1]
                     /\ \A q \in AnsweredNow(k) :
                           SameAnswer(req'[r].answer, req'[q].answer)
               /\ loadingMarkers'[k] = 0
               /\ Outstanding(k)' = {}
               /\ loadedMarkers'[k] = None]_vars
    /\ [][\A k \in PatternUrls : \A r \in RequestIds :
            (/\ group[k].failed > 0
             /\ Outstanding(k) = {}
             /\ loadedMarkers[k] = None
             /\ RecvLoadMarker(r, Some(k)))
            => /\ req'[r].stage = "awaitLoad"
               /\ group'[k].loads = group[k].loads + 1
               /\ Cardinality(Outstanding(k)') = 1
               /\ sent' = <<>>]_vars

\* two requests were answered with the error of one failed load, and the
\* request that followed has made a new engine load call
C28_Witness ==
    \E k \in PatternUrls :
        /\ group[k].failed = 1
        /\ group[k].loads = 2
        /\ Cardinality(Outstanding(k)) = 1
        /\ Cardinality({r \in RequestIds :
                           /\ req[r].stage = "answered"
                           /\ req[r].key = Some(k)
                           /\ ~req[r].answer[1].ok
                           /\ req[r].answer[1].error = "load failed"}) = 2

----------------------------------------------------------------------------
\* C29: a loadMarker request answered with a markerId leaves that id cached
\* for its patternUrl; a cached id never changes; a request for a cached url
\* is answered with the cached id in the step that receives it, without an
\* engine load call; and between two steps no url is both in loadedMarkers
\* and in loadingMarkers.
C29_CachedIdIsFinal ==
    /\ [][\A k \in PatternUrls : \A r \in AnsweredNow(k) :
            req'[r].answer[1].ok
            => loadedMarkers'[k] = Some(req'[r].answer[1].markerId)]_vars
    /\ [][\A k \in PatternUrls :
            loadedMarkers[k] # None
            => /\ loadedMarkers'[k] = loadedMarkers[k]
               /\ \A r \in RequestIds :
                     RecvLoadMarker(r, Some(k))
                     => /\ req'[r].stage = "answered"
                        /\ req'[r].answer[1].ok
                        /\ req'[r].answer[1].markerId = loadedMarkers[k][1]
                        /\ req'[r].answer[1].requestId = r
                        /\ calls' = calls
                        /\ engineLoads' = engineLoads
                        /\ group'[k].loads = group[k].loads]_vars
    /\ [](\A k \in PatternUrls : ~(loadedMarkers[k] # None /\ loadingMarkers[k] # 0))

\* a request that found its url cached has been answered with the id the
\* first request for the url was answered with, after one engine load call
C29_Witness ==
    \E k \in PatternUrls : \E r1, r2 \in RequestIds :
        /\ r1 < r2
        /\ req[r1].key = Some(k) /\ req[r2].key = Some(k)
        /\ req[r1].stage = "answered" /\ req[r2].stage = "answered"
        /\ req[r1].answer[1].ok /\ req[r2].answer[1].ok
        /\ req[r1].answer[1].markerId = req[r2].answer[1].markerId
        /\ group[k].cached
        /\ group[k].loads = 1
        /\ sent = <<LoadMarkerOk(r2, req[r2], loadedMarkers[k][1])>>

----------------------------------------------------------------------------
\* the loadMarkerResult messages among ms that carry requestId r
ResultsFor(ms, r) ==
    {i \in 1..Len(ms) : ms[i].type = "loadMarkerResult" /\ ms[i].payload.requestId = r}

WellFormedResult(p) ==
    IF p.ok THEN "markerId" \in DOMAIN p /\ "error" \notin DOMAIN p
    ELSE "error" \in DOMAIN p /\ "markerId" \notin DOMAIN p

WasReceived(r) == req[r].stage # "unsent"

WasAnswered(r) == req[r].stage = "answered"

\* C30: every loadMarker message is answered, by one loadMarkerResult that
\* carries its requestId and either ok = true with a markerId or ok = false
\* with an error: a step sends a result for a request only when it ends that
\* request's handler, it sends one, an ended handler sends no more, and every
\* request received is answered in the end, whether the init attempt and the
\* engine's load succeed or fail.
C30_OneResultPerRequest ==
    /\ [][\A r \in RequestIds :
            /\ Cardinality(ResultsFor(sent', r))
                 = IF ~WasAnswered(r) /\ WasAnswered(r)' THEN 1 ELSE 0
            /\ \A i \in ResultsFor(sent', r) :
                  /\ sent'[i].payload = req'[r].answer[1]
                  /\ WellFormedResult(sent'[i].payload)
            /\ WasAnswered(r) => req'[r] = req[r]]_vars
    /\ \A r \in RequestIds : WasReceived(r) ~> WasAnswered(r)

\* of three requests one was refused by a failed init, one by a failed engine
\* load and one has got a markerId
C30_Witness ==
    \E r1, r2, r3 \in RequestIds :
        /\ WasAnswered(r1) /\ WasAnswered(r2) /\ WasAnswered(r3)
        /\ NotInitialized(req[r1].answer)
        /\ ~req[r2].answer[1].ok /\ req[r2].answer[1].error = "load failed"
        /\ req[r3].answer[1].ok

----------------------------------------------------------------------------
\* the messages ms are loadMarkerResults with ok = false, one for each of rs
FailedResultsOnly(ms, rs) ==
    /\ Len(ms) = Cardinality(rs)
    /\ \A i \in 1..Len(ms) :
          /\ ms[i].type = "loadMarkerResult"
          /\ ~ms[i].payload.ok
          /\ ms[i].payload.requestId \in rs

\* C31: a load the engine rejects makes the worker send failed
\* loadMarkerResults to the requests that awaited it and nothing else, and a
\* loadMarker message without patternUrl makes it send one failed
\* loadMarkerResult to that request and nothing else; neither sends an error
\* message, and the request without patternUrl starts no init attempt, joins
\* none and makes no engine call.
C31_LoadFailureNotBroadcast ==
    /\ [][\A k \in PatternUrls :
            LoadFails(k)
            => /\ FailedResultsOnly(sent', AwaitingLoad(req, k))
               /\ ErrorsIn(sent') = {}]_vars
    /\ [][\A r \in RequestIds :
            RecvLoadMarker(r, None)
            => /\ FailedResultsOnly(sent', {r})
               /\ sent'[1].payload.error = "Missing patternUrl parameter"
               /\ ErrorsIn(sent') = {}
               /\ req'[r].stage = "answered"
               /\ initInProgress' = initInProgress
               /\ initAttempts' = initAttempts
               /\ initWaiters' = initWaiters
               /\ calls' = calls
               /\ engineLoads' = engineLoads]_vars

\* a load has just been rejected, after a request without patternUrl was
\* refused
C31_Witness ==
    \E r1, r2 \in RequestIds :
        /\ r1 < r2
        /\ WasAnswered(r1)
        /\ req[r1].key = None
        /\ req[r1].answer[1].error = "Missing patternUrl parameter"
        /\ WasAnswered(r2)
        /\ ~req[r2].answer[1].ok /\ req[r2].answer[1].error = "load failed"
        /\ FailedResultsOnly(sent, {r2})

----------------------------------------------------------------------------
\* C32: the requestId of a loadMarker call is greater than every requestId
\* used before, so it is not the requestId of a pending request; a
\* loadMarkerResult settles the pending request with its requestId, which
\* leaves the pending map, and no other request, whatever the order in which
\* results arrive; a result for a requestId that is not pending changes
\* nothing.
C32_RequestIdsMatch ==
    /\ [][\A k \in PatternUrls : \A sz \in MarkerSizes :
            LoadMarker(k, sz)
            => LET id == posted'[1].payload[1].requestId
               IN  /\ \A j \in Issued : j < id
                   /\ ~IsPending(id)
                   /\ pendingRequests'[id] # None
                   /\ \A j \in CallIds \ {id} :
                         pendingRequests'[j] = pendingRequests[j]]_vars
    /\ [][\A msg \in Handled(received') :
            msg.type = "loadMarkerResult"
            => LET id == msg.payload[1].requestId
               IN  /\ \A j \in CallIds \ {id} :
                         /\ pendingRequests'[j] = pendingRequests[j]
                         /\ settled'[j] = settled[j]
                   /\ pendingRequests'[id] = None
                   /\ IF IsPending(id)
                      THEN settled[id] = None /\ settled'[id] # None
                      ELSE settled'[id] = settled[id]]_vars

\* the result of the second call has arrived and settled it while the first
\* call is still pending
C32_Witness ==
    /\ received # None
    /\ received[1].type = "loadMarkerResult"
    /\ received[1].payload[1].requestId = 1
    /\ IsPending(0)
    /\ HasSettled(1)

----------------------------------------------------------------------------
\* process raised for the canvas
CanvasRejected(cs) ==
    \E j \in CallsOf(cs, {"process(canvas)"}) : cs[j].threw

\* process raised for the canvas and for the pixel data
BothRejected(cs) ==
    CanvasRejected(cs) /\ \E j \in CallsOf(cs, {"process(imgData)"}) : cs[j].threw

\* the canvas is still to be allocated, or it has its 2d context
CanvasUsable == ~offscreenCanvas \/ offscreenCtx

----------------------------------------------------------------------------
\* the messages that carry detections to the control side
DetectionsSent(ms) ==
    {i \in 1..Len(ms) : ms[i].type \in {"getMarker", "detectionResult"}}

\* C34: every message with which the worker hands a detection to the control
\* side carries the frameId of the processFrame message that produced it.
C34_DetectionsTagged ==
    \A i \in DetectionsSent(sent) : "frameId" \in DOMAIN sent[i].payload

----------------------------------------------------------------------------
\* the ready messages among ms
ReadyIn(ms) == {i \in 1..Len(ms) : ms[i].type = "ready"}

----------------------------------------------------------------------------
\* the events _onWorkerMessage emits
WorkerEventTypes ==
    {"ar:markerFound", "ar:markerUpdated", "ar:workerReady", "ar:workerError"}

\* C36: from a disable() that found a worker and stopped it to the next
\* enable() call no markerFound, markerUpdated, workerReady or workerError
\* event is emitted, whatever messages workers send.
C36_NoEventsAfterDisable ==
    [][(stoppedWorker /\ stoppedWorker')
        => \A i \in 1..Len(emitted') : emitted'[i].type \notin WorkerEventTypes]_vars

----------------------------------------------------------------------------
\* C37: at any time the plugin has at most one worker that was created and
\* not terminated and at most one interval timer that was set and not
\* cleared, however enable() and disable() calls interleave.
C37_OneWorkerOneTimer ==
    /\ Cardinality(liveWorkers) <= 1
    /\ Cardinality(timers) <= 1


\* the events of evs that report a marker lost
LostIn(evs) == {i \in 1..Len(evs) : evs[i].type = "ar:markerLost"}

\* C38: disable() leaves every marker record as it is and emits no
\* markerLost; while the plugin stays disabled no marker that had a record
\* when it was disabled is reported lost; and once the plugin is enabled
\* again, a detection of such an id whose record no sweep has removed yields
\* markerUpdated, not markerFound.
C38_DisableKeepsMarkers ==
    [][/\ DisableCall => (markers' = markers /\ LostIn(emitted') = {})
       /\ (~enabled /\ ~enabled')
            => \A i \in LostIn(emitted') : emitted'[i].id \notin heldAtDisable
       /\ \A msg \in Handled(received') : \A id \in heldAtDisable :
            (enabled /\ msg.type = "detectionResult"
                /\ Occurrences(DetectionsOf(msg), id) >= 1)
            => /\ EventCount(emitted', "ar:markerFound", id) = 0
               /\ EventCount(emitted', "ar:markerUpdated", id) >= 1]_vars

\* every record is that of a visible marker with no miss counted
AllVisible(m) == \A i \in 1..Len(m) : m[i].visible /\ m[i].lostCount = 0

\* C39: at any time every marker record has visible = TRUE and a miss
\* counter of 0; a record that goes is removed in a step that reports the
\* marker lost, so a record is never kept as stale; and a step emits
\* markerFound for an id exactly when it handles a batch that holds the id
\* while the id has no record, once for the batch.
C39_RecordsAlwaysVisible ==
    /\ [] AllVisible(markers)
    /\ [][\A id \in MarkerIds :
            /\ (HasMarker(markers, id) /\ ~HasMarker(markers', id))
                 => EventCount(emitted', "ar:markerLost", id) = 1
            /\ EventCount(emitted', "ar:markerFound", id)
                 = IF /\ ~HasMarker(markers, id)
                      /\ \E msg \in Handled(received') :
                            /\ msg.type = "detectionResult"
                            /\ Occurrences(DetectionsOf(msg), id) >= 1
                   THEN 1 ELSE 0]_vars

\* a marker has just been found while the record of another one, not seen
\* since an earlier time, is still that of a visible marker
C39_Witness ==
    \E id \in MarkerIds : \E other \in MarkerIds \ {id} :
        /\ EventCount(emitted, "ar:markerFound", id) = 1
        /\ HasMarker(markers, other)
        /\ GetMarker(markers, other).lastSeen < clock
        /\ GetMarker(markers, other).visible
        /\ GetMarker(markers, other).lostCount = 0
        /\ ~DetectedNow(other)


====
